---- MODULE Spec2Model ----
(***************************************************************************)
(* The tool-call dispatcher of aichat (src/function.rs): ToolCall::dedup,  *)
(* ToolCallConfig::extract, ToolCall::eval, run_llm_function,              *)
(* ToolResult::new_from_eval_result and eval_tool_calls with its spawned   *)
(* tokio tasks; McpAdapter and ToolSet (src/mcp); Session                   *)
(* (src/config/session.rs) and sync_session (src/config/sync.rs).          *)
(*                                                                         *)
(* Text (a Rust String) is a sequence of one-character strings, so that    *)
(* serde_json::from_str and Value::to_string are computed character by     *)
(* character.  A format!() literal may stand in a text as one atom.        *)
(***************************************************************************)
EXTENDS Integers, Sequences, FiniteSets, TLC

\* ------------------------------------------------------------------ bounds
\* Longest call list handed to eval_tool_calls.
MaxCalls == 3
\* Longest call list handed to ToolCall::dedup on its own.
MaxDedupLen == 4
\* Most servers under mcpServers.
MaxServers == 2
\* Most calls of ToolSet::call on one adapter.
MaxToolCalls == 2
MaxOps == 3
MaxSyncs == 2

\* ------------------------------------------------- serde_json::Value
Null == [t |-> "null"]
Bool(b) == [t |-> "bool", b |-> b]
Number(d) == [t |-> "num", d |-> d]
String(s) == [t |-> "str", s |-> s]
Array(a) == [t |-> "arr", a |-> a]
Object(m) == [t |-> "obj", m |-> m]

is_null(v) == v.t = "null"
is_object(v) == v.t = "obj"
is_string(v) == v.t = "str"

\* serde_json::Map: keys are texts.
EmptyMap == [k \in {} |-> Null]
MapInsert(m, k, v) == [x \in (DOMAIN m) \cup {k} |-> IF x = k THEN v ELSE m[x]]

\* ------------------------------------------------- serde_json::from_str
Whitespace == {" ", "\n", "\t", "\r"}
Digits == {"0", "1", "2", "3", "4", "5", "6", "7", "8", "9"}

ParseFail == [ok |-> FALSE]
ParseOk(v, rest) == [ok |-> TRUE, v |-> v, rest |-> rest]

StartsWith(s, p) == Len(s) >= Len(p) /\ SubSeq(s, 1, Len(p)) = p
Drop(s, n) == SubSeq(s, n + 1, Len(s))

RECURSIVE SkipWs(_)
SkipWs(s) == IF s # <<>> /\ Head(s) \in Whitespace THEN SkipWs(Tail(s)) ELSE s

\* The digits at the head of s, and what follows them.
RECURSIVE TakeDigits(_, _)
TakeDigits(acc, s) ==
    IF s # <<>> /\ Head(s) \in Digits
    THEN TakeDigits(Append(acc, Head(s)), Tail(s))
    ELSE <<acc, s>>

\* A non-negative integer; a leading zero ends the number, and a digit after
\* it is an error (serde_json: "invalid number").
ParseNumber(s) ==
    IF Head(s) = "0"
    THEN IF Len(s) > 1 /\ s[2] \in Digits
         THEN ParseFail
         ELSE ParseOk(Number(<<"0">>), Tail(s))
    ELSE LET r == TakeDigits(<<>>, s) IN ParseOk(Number(r[1]), r[2])

\* The characters of a string literal after its opening quote: up to the
\* closing quote, with the escapes \" \\ \n; a raw control character or an
\* unterminated literal is an error.
RECURSIVE ParseStr(_, _)
ParseStr(acc, s) ==
    IF s = <<>> THEN ParseFail
    ELSE IF Head(s) = "\"" THEN ParseOk(acc, Tail(s))
    ELSE IF Head(s) = "\\"
         THEN IF Len(s) < 2 THEN ParseFail
              ELSE IF s[2] = "\"" THEN ParseStr(Append(acc, "\""), Drop(s, 2))
              ELSE IF s[2] = "\\" THEN ParseStr(Append(acc, "\\"), Drop(s, 2))
              ELSE IF s[2] = "n" THEN ParseStr(Append(acc, "\n"), Drop(s, 2))
              ELSE ParseFail
    ELSE IF Head(s) \in {"\n", "\t", "\r"} THEN ParseFail
    ELSE ParseStr(Append(acc, Head(s)), Tail(s))

RECURSIVE ParseValue(_)
RECURSIVE ParseMembers(_, _)
RECURSIVE ParseElements(_, _)

\* After '{' or ',': a "key": value member, then ',' or '}'.  A later
\* member of the same key replaces the earlier one.
ParseMembers(m, s0) ==
    LET s == SkipWs(s0) IN
    IF s = <<>> \/ Head(s) # "\"" THEN ParseFail
    ELSE LET k == ParseStr(<<>>, Tail(s)) IN
         IF ~k.ok THEN ParseFail
         ELSE LET s1 == SkipWs(k.rest) IN
              IF s1 = <<>> \/ Head(s1) # ":" THEN ParseFail
              ELSE LET v == ParseValue(Tail(s1)) IN
                   IF ~v.ok THEN ParseFail
                   ELSE LET s2 == SkipWs(v.rest)
                            m2 == MapInsert(m, k.v, v.v) IN
                        IF s2 = <<>> THEN ParseFail
                        ELSE IF Head(s2) = "," THEN ParseMembers(m2, Tail(s2))
                        ELSE IF Head(s2) = "}" THEN ParseOk(Object(m2), Tail(s2))
                        ELSE ParseFail

\* After '[' or ',': a value, then ',' or ']'.
ParseElements(a, s0) ==
    LET v == ParseValue(s0) IN
    IF ~v.ok THEN ParseFail
    ELSE LET s2 == SkipWs(v.rest)
             a2 == Append(a, v.v) IN
         IF s2 = <<>> THEN ParseFail
         ELSE IF Head(s2) = "," THEN ParseElements(a2, Tail(s2))
         ELSE IF Head(s2) = "]" THEN ParseOk(Array(a2), Tail(s2))
         ELSE ParseFail

ParseValue(s0) ==
    LET s == SkipWs(s0) IN
    IF s = <<>> THEN ParseFail
    ELSE IF StartsWith(s, <<"n", "u", "l", "l">>) THEN ParseOk(Null, Drop(s, 4))
    ELSE IF StartsWith(s, <<"t", "r", "u", "e">>) THEN ParseOk(Bool(TRUE), Drop(s, 4))
    ELSE IF StartsWith(s, <<"f", "a", "l", "s", "e">>) THEN ParseOk(Bool(FALSE), Drop(s, 5))
    ELSE IF Head(s) \in Digits THEN ParseNumber(s)
    ELSE IF Head(s) = "\""
         THEN LET r == ParseStr(<<>>, Tail(s)) IN
              IF r.ok THEN ParseOk(String(r.v), r.rest) ELSE ParseFail
    ELSE IF Head(s) = "{"
         THEN LET s1 == SkipWs(Tail(s)) IN
              IF s1 # <<>> /\ Head(s1) = "}"
              THEN ParseOk(Object(EmptyMap), Tail(s1))
              ELSE ParseMembers(EmptyMap, s1)
    ELSE IF Head(s) = "["
         THEN LET s1 == SkipWs(Tail(s)) IN
              IF s1 # <<>> /\ Head(s1) = "]"
              THEN ParseOk(Array(<<>>), Tail(s1))
              ELSE ParseElements(<<>>, s1)
    ELSE ParseFail

\* serde_json::from_str::<Value>: one value, then nothing but whitespace.
from_str(text) ==
    LET r == ParseValue(text) IN
    IF r.ok /\ SkipWs(r.rest) = <<>> THEN [ok |-> TRUE, v |-> r.v] ELSE ParseFail

\* ------------------------------------------------- Value::to_string
\* The characters of the model in byte order: the order of the keys of a
\* serde_json::Map (a BTreeMap) when it is written out.
CharOrder ==
    <<"\n", " ", "\"", ",", "0", "1", "2", "3", "4", "5", "6", "7", "8", "9", ":",
      "[", "\\", "]", "a", "b", "c", "d", "e", "f", "g", "h", "i", "j", "k", "l",
      "m", "n", "o", "p", "q", "r", "s", "t", "u", "v", "w", "x", "y", "z", "{", "}">>
Rank(c) == IF \E i \in DOMAIN CharOrder : CharOrder[i] = c
           THEN CHOOSE i \in DOMAIN CharOrder : CharOrder[i] = c
           ELSE 0

RECURSIVE KeyLess(_, _)
KeyLess(a, b) ==
    IF a = <<>> THEN b # <<>>
    ELSE IF b = <<>> THEN FALSE
    ELSE IF Head(a) = Head(b) THEN KeyLess(Tail(a), Tail(b))
    ELSE Rank(Head(a)) < Rank(Head(b))

RECURSIVE SortedKeys(_)
SortedKeys(ks) ==
    IF ks = {} THEN <<>>
    ELSE LET k == CHOOSE x \in ks : \A y \in ks \ {x} : KeyLess(x, y)
         IN <<k>> \o SortedKeys(ks \ {k})

RECURSIVE EscapeStr(_)
EscapeStr(s) ==
    IF s = <<>> THEN <<>>
    ELSE (IF Head(s) = "\"" THEN <<"\\", "\"">>
          ELSE IF Head(s) = "\\" THEN <<"\\", "\\">>
          ELSE IF Head(s) = "\n" THEN <<"\\", "n">>
          ELSE <<Head(s)>>) \o EscapeStr(Tail(s))

Quoted(s) == <<"\"">> \o EscapeStr(s) \o <<"\"">>

RECURSIVE to_string(_)
RECURSIVE JoinElements(_)
RECURSIVE JoinMembers(_, _)

JoinElements(a) ==
    IF a = <<>> THEN <<>>
    ELSE to_string(Head(a)) \o (IF Len(a) > 1 THEN <<",">> ELSE <<>>) \o JoinElements(Tail(a))

JoinMembers(m, ks) ==
    IF ks = <<>> THEN <<>>
    ELSE Quoted(Head(ks)) \o <<":">> \o to_string(m[Head(ks)])
         \o (IF Len(ks) > 1 THEN <<",">> ELSE <<>>) \o JoinMembers(m, Tail(ks))

\* Display of a Value: compact JSON.
to_string(v) ==
    IF v.t = "null" THEN <<"n", "u", "l", "l">>
    ELSE IF v.t = "bool"
         THEN (IF v.b THEN <<"t", "r", "u", "e">> ELSE <<"f", "a", "l", "s", "e">>)
    ELSE IF v.t = "num" THEN v.d
    ELSE IF v.t = "str" THEN Quoted(v.s)
    ELSE IF v.t = "arr" THEN <<"[">> \o JoinElements(v.a) \o <<"]">>
    ELSE <<"{">> \o JoinMembers(v.m, SortedKeys(DOMAIN v.m)) \o <<"}">>

\* ------------------------------------------------- Result and Option
Ok(v) == [ok |-> TRUE, v |-> v]
Err(e) == [ok |-> FALSE, e |-> e]
None == [some |-> FALSE]
Some(x) == [some |-> TRUE, x |-> x]

\* ------------------------------------------------- texts of the program
K_error == <<"e", "r", "r", "o", "r">>
K_message == <<"m", "e", "s", "s", "a", "g", "e">>
K_stdout == <<"s", "t", "d", "o", "u", "t">>
K_stderr == <<"s", "t", "d", "e", "r", "r">>
K_output == <<"o", "u", "t", "p", "u", "t">>
DONE == String(<<"D", "O", "N", "E">>)

\* ------------------------------------------------- declarations and agent
\* FunctionDeclaration: the fields that decide a call (description and
\* parameters are only shown to the model).
Declaration(name, agent, allow_concurrency) ==
    [name |-> name, agent |-> agent, allow_concurrency |-> allow_concurrency]

\* A declaration as serde reads it: agent and allow_concurrency are false
\* when the entry does not state them.
deserialize(fields) ==
    Declaration(fields.name,
                IF "agent" \in DOMAIN fields THEN fields.agent ELSE FALSE,
                IF "allow_concurrency" \in DOMAIN fields
                THEN fields.allow_concurrency ELSE FALSE)

\* Functions::find: the first declaration of that name.
find(declarations, name) ==
    IF \E i \in DOMAIN declarations : declarations[i].name = name
    THEN Some(declarations[CHOOSE i \in DOMAIN declarations :
                  /\ declarations[i].name = name
                  /\ \A j \in 1..(i - 1) : declarations[j].name # name])
    ELSE None

\* config.functions: the global declaration store.
functions ==
    << Declaration("seq_tool", FALSE, FALSE),
       Declaration("con_tool", FALSE, TRUE) >>

\* An agent: its name, its functions and its variable environment.
Coder ==
    [ name |-> "coder",
      functions |-> << Declaration("con_tool", TRUE, FALSE),
                       Declaration("seq_tool", FALSE, TRUE),
                       Declaration("own_tool", TRUE, FALSE) >>,
      variable_envs |-> [k \in {"LLM_AGENT_VAR_X"} |-> <<"1">>] ]

NoEnvs == [k \in {} |-> <<>>]

\* ------------------------------------------------- ToolCallConfig
from_declaration(function) ==
    [ name |-> <<function.name>>,
      cmd |-> function.name,
      args |-> <<>>,
      envs |-> NoEnvs,
      concurrent |-> function.allow_concurrency ]

\* A resolution in the agent that takes the flag of the global declaration
\* of the same name when there is one.
FromAgentGlobalFlag(function, agent) ==
    IF ~function.agent THEN None
    ELSE Some([ name |-> <<agent.name, "-", function.name>>,
                cmd |-> agent.name,
                args |-> << <<function.name>> >>,
                envs |-> agent.variable_envs,
                concurrent |-> IF find(functions, function.name).some
                               THEN find(functions, function.name).x.allow_concurrency
                               ELSE function.allow_concurrency ])

from_agent(function, agent) ==
    IF ~function.agent THEN None
    ELSE Some([ name |-> <<agent.name, "-", function.name>>,
                cmd |-> agent.name,
                args |-> << <<function.name>> >>,
                envs |-> agent.variable_envs,
                concurrent |-> function.allow_concurrency ])

\* A resolution that looks in the global store first.
ExtractGlobalFirst(function_name, fns, agent) ==
    LET af == IF agent.some THEN find(agent.x.functions, function_name) ELSE None
        ac == IF af.some /\ af.x.agent THEN from_agent(af.x, agent.x) ELSE None
        gf == find(fns, function_name)
    IN IF gf.some THEN Ok(from_declaration(gf.x))
       ELSE IF ac.some THEN Ok(ac.x)
       ELSE Err(<<"Function not found: ", function_name>>)

\* ToolCallConfig::extract.
extract(function_name, fns, agent) ==
    LET af == IF agent.some THEN find(agent.x.functions, function_name) ELSE None
        ac == IF af.some /\ af.x.agent THEN from_agent(af.x, agent.x) ELSE None
        gf == find(fns, function_name)
    IN IF ac.some THEN Ok(ac.x)
       ELSE IF gf.some THEN Ok(from_declaration(gf.x))
       ELSE Err(<<"Function not found: ", function_name>>)

\* ------------------------------------------------- ToolCall
ToolCall(name, arguments, id) == [name |-> name, arguments |-> arguments, id |-> id]

Reverse(s) == [i \in 1..Len(s) |-> s[Len(s) + 1 - i]]

\* The loop of dedup over calls.into_iter().rev().
RECURSIVE DedupScan(_, _, _)
DedupScan(calls, seen_ids, new_calls) ==
    IF calls = <<>> THEN new_calls
    ELSE LET call == calls[Len(calls)]
             rest == SubSeq(calls, 1, Len(calls) - 1)
         IN IF call.id.some
            THEN IF call.id.x \notin seen_ids
                 THEN DedupScan(rest, seen_ids \cup {call.id.x}, Append(new_calls, call))
                 ELSE DedupScan(rest, seen_ids, new_calls)
            ELSE DedupScan(rest, seen_ids, Append(new_calls, call))

\* A dedup that scans forward: the first call of an id survives.
DedupKeepFirst(calls) == DedupScan(Reverse(calls), {}, <<>>)

\* A dedup that takes "no id" for an id like any other.
RECURSIVE DedupOptionScan(_, _, _)
DedupOptionScan(calls, seen_ids, new_calls) ==
    IF calls = <<>> THEN new_calls
    ELSE LET call == calls[Len(calls)]
             rest == SubSeq(calls, 1, Len(calls) - 1)
         IN IF call.id \notin seen_ids
            THEN DedupOptionScan(rest, seen_ids \cup {call.id}, Append(new_calls, call))
            ELSE DedupOptionScan(rest, seen_ids, new_calls)
DedupOptionIds(calls) == Reverse(DedupOptionScan(calls, {}, <<>>))

\* A deduplication that keeps only the calls without id.
DedupIdless(calls) == SelectSeq(calls, LAMBDA call : ~call.id.some)

\* ToolCall::dedup.
dedup(calls) == Reverse(DedupScan(calls, {}, <<>>))

\* ------------------------------------------------- run_llm_function
\* What the operating system answers to one run: sys.path is
\* std::env::var("PATH"), sys.run the result of run_command_with_output
\* (success, stdout, stderr), sys.exists whether the LLM_OUTPUT file exists
\* afterwards and sys.read the result of reading it.
System(path, run, exists, read) ==
    [path |-> path, run |-> run, exists |-> exists, read |-> read]
Exit(success, stdout, stderr) ==
    Ok([success |-> success, stdout |-> stdout, stderr |-> stderr])

ExecutionFailed(stdout, stderr) ==
    Object(MapInsert(MapInsert(MapInsert(EmptyMap,
        K_error, Bool(TRUE)), K_stdout, String(stdout)), K_stderr, String(stderr)))

\* A run that takes the standard output as contents when the output file
\* gives none.
RunLlmFunctionReadsStdout(cmd_name, cmd_args, envs, sys) ==
    IF ~sys.path.some THEN Err(<<"No PATH environment variable">>)
    ELSE IF ~sys.run.ok THEN Err(<<"Unable to run ", cmd_name, ", ">> \o sys.run.e)
    ELSE IF ~sys.run.v.success
         THEN Err(to_string(ExecutionFailed(sys.run.v.stdout, sys.run.v.stderr)))
    ELSE IF sys.exists /\ ~sys.read.ok THEN Err(<<"Failed to retrieve tool call output">>)
    ELSE IF sys.exists /\ sys.read.v # <<>> THEN Ok(Some(sys.read.v))
    ELSE IF sys.run.v.stdout # <<>> THEN Ok(Some(sys.run.v.stdout))
    ELSE Ok(None)

\* A run that reads the output file before it looks at the exit status.
RunLlmFunctionReadsFileFirst(cmd_name, cmd_args, envs, sys) ==
    IF ~sys.path.some THEN Err(<<"No PATH environment variable">>)
    ELSE IF ~sys.run.ok THEN Err(<<"Unable to run ", cmd_name, ", ">> \o sys.run.e)
    ELSE IF sys.exists /\ sys.read.ok /\ sys.read.v # <<>> THEN Ok(Some(sys.read.v))
    ELSE IF ~sys.run.v.success
         THEN Err(to_string(ExecutionFailed(sys.run.v.stdout, sys.run.v.stderr)))
    ELSE IF sys.exists /\ ~sys.read.ok THEN Err(<<"Failed to retrieve tool call output">>)
    ELSE Ok(None)

\* Result<Option<String>>.
run_llm_function(cmd_name, cmd_args, envs, sys) ==
    IF ~sys.path.some THEN Err(<<"No PATH environment variable">>)
    ELSE IF ~sys.run.ok THEN Err(<<"Unable to run ", cmd_name, ", ">> \o sys.run.e)
    ELSE IF ~sys.run.v.success
         THEN Err(to_string(ExecutionFailed(sys.run.v.stdout, sys.run.v.stderr)))
    ELSE IF sys.exists
         THEN IF ~sys.read.ok THEN Err(<<"Failed to retrieve tool call output">>)
              ELSE IF sys.read.v # <<>> THEN Ok(Some(sys.read.v))
              ELSE Ok(None)
    ELSE Ok(None)

\* Arguments that are taken as they come, whatever their shape.
JsonDataUnchecked(self, call_name) == Ok(self.arguments)

\* The arguments of a call as eval normalises them: Result<Value>.
json_data(self, call_name) ==
    IF is_object(self.arguments) THEN Ok(self.arguments)
    ELSE IF is_string(self.arguments)
         THEN LET parsed == from_str(self.arguments.s) IN
              IF parsed.ok THEN Ok(parsed.v)
              ELSE Err(<<"The call '">> \o call_name \o <<"' has invalid arguments: ">>
                       \o self.arguments.s)
    ELSE Err(<<"The call '">> \o call_name \o <<"' has invalid arguments: ">>
             \o to_string(self.arguments))

\* An output that is never parsed: the contents are always wrapped.
OutputAlwaysWrapped(contents) ==
    IF contents.some
    THEN Object(MapInsert(EmptyMap, K_output, String(contents.x)))
    ELSE Null

\* The output of a call from what run_llm_function returned.
output_of(contents) ==
    IF contents.some
    THEN LET parsed == from_str(contents.x) IN
         IF parsed.ok THEN parsed.v
         ELSE Object(MapInsert(EmptyMap, K_output, String(contents.x)))
    ELSE Null

\* ToolCall::eval: Result<Value>.
eval(self, config, sys) ==
    LET data == json_data(self, config.name) IN
    IF ~data.ok THEN data
    ELSE LET cmd_args == Append(config.args, to_string(data.v))
             ran == run_llm_function(config.cmd, cmd_args, config.envs, sys)
         IN IF ~ran.ok THEN ran ELSE Ok(output_of(ran.v))

\* The commands eval hands to run_command_with_output: none when the
\* arguments are refused or PATH is not set, else the command with its
\* arguments, the serialized json_data last.
commands_run(self, config, sys) ==
    LET data == json_data(self, config.name) IN
    IF ~data.ok \/ ~sys.path.some THEN <<>>
    ELSE << [cmd |-> config.cmd, args |-> Append(config.args, to_string(data.v))] >>

\* ------------------------------------------------- ToolResult
ToolResult(call, output) == [call |-> call, output |-> output]

\* A result that keeps a null output as it is.
NewFromEvalResultKeepsNull(call, eval_result) ==
    ToolResult(call,
        IF eval_result.ok
        THEN eval_result.v
        ELSE Object(MapInsert(MapInsert(EmptyMap,
                 K_error, Bool(TRUE)), K_message, String(eval_result.e))))

new_from_eval_result(call, eval_result) ==
    ToolResult(call,
        IF eval_result.ok
        THEN (IF is_null(eval_result.v) THEN DONE ELSE eval_result.v)
        ELSE Object(MapInsert(MapInsert(EmptyMap,
                 K_error, Bool(TRUE)), K_message, String(eval_result.e))))

\* ------------------------------------------------- inputs of the model
ToolNames == {"seq_tool", "con_tool", "nope"}
ObjectArguments == Object(MapInsert(EmptyMap, <<"q">>, Number(<<"1">>)))
NumberArguments == Number(<<"7">>)
CallArguments == {ObjectArguments, NumberArguments}
CallIds == {None, Some("A")}
\* A name that does not resolve never has its arguments read.
Calls ==
    {ToolCall(n, a, i) : n \in ToolNames \ {"nope"}, a \in CallArguments, i \in CallIds}
    \cup {ToolCall("nope", ObjectArguments, i) : i \in CallIds}

SeqsUpTo(S, n) == UNION {[1..k -> S] : k \in 0..n}

Path == Some(<<"/usr/bin">>)
Text_x1 == <<"{", "\"", "x", "\"", ":", "1", "}">>
Text_hello == <<"h", "e", "l", "l", "o">>
Text_null == <<"n", "u", "l", "l">>
\* The command cannot be run.
CannotRun == System(Path, Err(<<"No such file or directory">>), FALSE, Ok(<<>>))
\* The child exits with a non-zero status.
ExitsNonZero == System(Path, Exit(FALSE, <<"o">>, <<"e">>), FALSE, Ok(<<>>))
\* The child succeeds and writes no output file.
WritesNothing == System(Path, Exit(TRUE, <<"o">>, <<>>), FALSE, Ok(<<>>))
\* The child succeeds and writes {"x":1}, hello or null to its output file.
WritesJson == System(Path, Exit(TRUE, <<>>, <<>>), TRUE, Ok(Text_x1))
WritesText == System(Path, Exit(TRUE, <<>>, <<>>), TRUE, Ok(Text_hello))
WritesNull == System(Path, Exit(TRUE, <<>>, <<>>), TRUE, Ok(Text_null))
Systems == {CannotRun, ExitsNonZero, WritesNothing, WritesJson, WritesText}

\* ------------------------------------------------- eval_tool_calls
VARIABLES
    agent,             \* config.agent: Option<Agent>
    calls,             \* the parameter calls, then the deduplicated list
    pc,                \* where eval_tool_calls stands
    index,             \* the position of the loop over calls (from 0)
    results_map,       \* HashMap<usize, ToolResult>
    concurrent_tasks,  \* the spawned tasks, in the order of their JoinHandles
    ret,               \* what eval_tool_calls returned: Option<Result<Vec<ToolResult>>>
    evaluated,         \* history: index -> what call.eval met and returned
    overtaken,         \* history: a task ended while an earlier one had not
    eval_count,        \* history: index -> how many times call.eval was entered
    fn_arg,            \* the argument of a function applied on its own
    fn_ret             \* and its result: Option

VARIABLES
    config_file,       \* the server names under mcpServers, in the order of the file
    remote,            \* what each server answers to connect, get_peer, list_all_tools
    mcp_pc,            \* where McpAdapter::init stands
    pending,           \* the entries of configs.servers the loop has not visited
    clients,           \* the keys of HashMap<String, McpServer>
    toolset,           \* ToolSet.tools: name -> McpToolAdapter
    mcp_ret,           \* what McpAdapter::init returned: Option<Result<McpAdapter>>
    called,            \* how many times ToolSet::call was called
    sent,              \* how many call_tool requests went to the servers
    call_arg,          \* the last ToolSet::call: Option of (name, args)
    request,           \* the request it sent, with the server's answer: Option
    call_ret           \* what it returned: Option<Result<CallToolResult>>

VARIABLES
    session,           \* the Session of config.session: Option
    on_disk,           \* the session file last read or written: Option of (path, content)
    session_op,        \* history: the last Session operation and what it met
    ops,               \* history: how many Session operations ran
    memory_client,     \* config.memory_client(): Option
    chats,             \* the chats of the memory server, in the order created
    sync_pc,           \* where each sync_session call stands
    sync_local,        \* the locals of each sync_session call
    sync_ret           \* what each sync_session call returned: Option<Result<()>>

mcp_vars == <<config_file, remote, mcp_pc, pending, clients, toolset, mcp_ret,
              called, sent, call_arg, request, call_ret>>
session_vars == <<session, on_disk, session_op, ops>>
sync_vars == <<memory_client, chats, sync_pc, sync_local, sync_ret>>
vars == <<agent, calls, pc, index, results_map, concurrent_tasks, ret,
          evaluated, overtaken, eval_count, fn_arg, fn_ret, mcp_vars,
          session_vars, sync_vars>>
fn_vars == <<fn_arg, fn_ret>>
history == <<evaluated, overtaken, eval_count>>

McpToolAdapter(tool, server) == [tool |-> tool, server |-> server]
EmptyToolSet == [n \in {} |-> McpToolAdapter("", "")]
NoRemote == [n \in {} |-> [connects |-> FALSE]]

\* No configuration was loaded and McpAdapter::init is not called.
McpOff ==
    /\ config_file = <<>>
    /\ remote = NoRemote
    /\ mcp_pc = "off"
    /\ pending = {}
    /\ clients = {}
    /\ toolset = EmptyToolSet
    /\ mcp_ret = None
    /\ called = 0
    /\ sent = 0
    /\ call_arg = None
    /\ request = None
    /\ call_ret = None

\* No session was started and sync_session is not called.
SessionOff ==
    /\ session = None
    /\ on_disk = None
    /\ session_op = None
    /\ ops = 0
    /\ memory_client = None
    /\ chats = <<>>
    /\ sync_pc = <<>>
    /\ sync_local = <<>>
    /\ sync_ret = <<>>

EmptyResults == [i \in {} |-> ToolResult(ToolCall("", Null, None), Null)]
insert(map, k, v) == [x \in (DOMAIN map) \cup {k} |-> IF x = k THEN v ELSE map[x]]

\* A task tagged with the position counted from 1.
TaskTaggedFromOne(i, call) ==
    [index |-> i + 1, call |-> call, st |-> "spawned", result |-> None]

\* A task tagged with its place among the tasks instead of its position.
TaskTaggedBySpawnOrder(i, call) ==
    [index |-> Len(concurrent_tasks), call |-> call, st |-> "spawned", result |-> None]

Task(i, call) == [index |-> i, call |-> call, st |-> "spawned", result |-> None]

\* One evaluation: sys is the run the call made (None when eval returned
\* before run_llm_function), result what eval returned.
Evaluation(call, config, sys) ==
    [ sys |-> IF json_data(call, config.name).ok THEN Some(sys) ELSE None,
      result |-> eval(call, config, sys) ]
NoEvaluations == [i \in {} |-> [sys |-> None, result |-> Ok(Null)]]
NoCounts == [i \in {} |-> 0]
Entered(counts, i) == insert(counts, i, IF i \in DOMAIN counts THEN counts[i] + 1 ELSE 1)

Init ==
    /\ agent \in {None, Some(Coder)}
    /\ calls \in SeqsUpTo(Calls, MaxCalls)
    /\ pc = "start"
    /\ index = 0
    /\ results_map = EmptyResults
    /\ concurrent_tasks = <<>>
    /\ ret = None
    /\ evaluated = NoEvaluations
    /\ overtaken = FALSE
    /\ eval_count = NoCounts
    /\ fn_arg = <<>>
    /\ fn_ret = None
    /\ McpOff
    /\ SessionOff

\* Lines 29-36: the empty list returns at once; otherwise dedup, and the
\* loop check on its result.
Begin ==
    /\ pc = "start"
    /\ IF calls = <<>>
       THEN /\ ret' = Some(Ok(<<>>))
            /\ pc' = "done"
            /\ UNCHANGED calls
       ELSE /\ calls' = dedup(calls)
            /\ IF calls' = <<>>
               THEN /\ ret' = Some(Err(<<"The request was aborted because an infinite loop of function calls was detected.">>))
                    /\ pc' = "done"
               ELSE /\ ret' = ret
                    /\ pc' = "loop"
    /\ UNCHANGED <<session_vars, sync_vars, mcp_vars, agent, index, results_map, concurrent_tasks, history, fn_vars>>

CurrentCall == calls[index + 1]
CurrentConfig == extract(CurrentCall.name, functions, agent)

\* Line 46: extract fails and `?` returns the error from eval_tool_calls.
\* The tasks spawned so far are not awaited.
ResolveFails ==
    /\ pc = "loop" /\ index < Len(calls)
    /\ ~CurrentConfig.ok
    /\ ret' = Some(Err(CurrentConfig.e))
    /\ pc' = "done"
    /\ UNCHANGED <<session_vars, sync_vars, mcp_vars, agent, calls, index, results_map, concurrent_tasks, history, fn_vars>>

\* A spawn that waits until the tasks spawned before it have ended.
SpawnTaskAfterTasksEnd ==
    /\ pc = "loop" /\ index < Len(calls)
    /\ CurrentConfig.ok /\ CurrentConfig.v.concurrent
    /\ \A k \in DOMAIN concurrent_tasks :
          concurrent_tasks[k].st \in {"finished", "panicked"}
    /\ concurrent_tasks' = Append(concurrent_tasks, Task(index, CurrentCall))
    /\ index' = index + 1
    /\ UNCHANGED <<session_vars, sync_vars, mcp_vars, agent, calls, pc, results_map, ret, history, fn_vars>>

\* Lines 48-53: a concurrent call is spawned as a task.
SpawnTask ==
    /\ pc = "loop" /\ index < Len(calls)
    /\ CurrentConfig.ok /\ CurrentConfig.v.concurrent
    /\ concurrent_tasks' = Append(concurrent_tasks, Task(index, CurrentCall))
    /\ index' = index + 1
    /\ UNCHANGED <<session_vars, sync_vars, mcp_vars, agent, calls, pc, results_map, ret, history, fn_vars>>

\* Line 55: eval_tool_calls enters call.eval for a call that is not concurrent.
EvalStart ==
    /\ pc = "loop" /\ index < Len(calls)
    /\ CurrentConfig.ok /\ ~CurrentConfig.v.concurrent
    /\ pc' = "eval"
    /\ eval_count' = Entered(eval_count, index)
    /\ UNCHANGED <<session_vars, sync_vars, mcp_vars, agent, calls, index, results_map, concurrent_tasks, ret,
                   evaluated, overtaken, fn_vars>>

\* A return that sends a failed call back to the loop to be evaluated again.
EvalReturnRetriesFailed ==
    /\ pc = "eval"
    /\ \E sys \in Systems :
         LET result == eval(CurrentCall, CurrentConfig.v, sys) IN
         IF result.ok
         THEN /\ results_map' = insert(results_map, index,
                     new_from_eval_result(CurrentCall, result))
              /\ evaluated' = insert(evaluated, index,
                     Evaluation(CurrentCall, CurrentConfig.v, sys))
              /\ index' = index + 1
         ELSE UNCHANGED <<results_map, evaluated, index>>
    /\ pc' = "loop"
    /\ UNCHANGED <<session_vars, sync_vars, mcp_vars, agent, calls, concurrent_tasks, ret, overtaken, eval_count,
                   fn_vars>>

\* A return that records the result at the next free key of the map.
EvalReturnAtNextFree ==
    /\ pc = "eval"
    /\ \E sys \in Systems :
         /\ results_map' = insert(results_map, Cardinality(DOMAIN results_map),
                new_from_eval_result(CurrentCall, eval(CurrentCall, CurrentConfig.v, sys)))
         /\ evaluated' = insert(evaluated, index,
                Evaluation(CurrentCall, CurrentConfig.v, sys))
    /\ index' = index + 1
    /\ pc' = "loop"
    /\ UNCHANGED <<session_vars, sync_vars, mcp_vars, agent, calls, concurrent_tasks, ret, overtaken, eval_count,
                   fn_vars>>

\* Lines 55-56: call.eval returns and its result is recorded at index.
EvalReturn ==
    /\ pc = "eval"
    /\ \E sys \in Systems :
         /\ results_map' = insert(results_map, index,
                new_from_eval_result(CurrentCall, eval(CurrentCall, CurrentConfig.v, sys)))
         /\ evaluated' = insert(evaluated, index,
                Evaluation(CurrentCall, CurrentConfig.v, sys))
    /\ index' = index + 1
    /\ pc' = "loop"
    /\ UNCHANGED <<session_vars, sync_vars, mcp_vars, agent, calls, concurrent_tasks, ret, overtaken, eval_count,
                   fn_vars>>

Ended(t) == t.st \in {"finished", "panicked"}

\* A spawned task is polled: it enters call.eval.
TaskStart(k) ==
    /\ concurrent_tasks[k].st = "spawned"
    /\ concurrent_tasks' = [concurrent_tasks EXCEPT ![k].st = "running"]
    /\ eval_count' = Entered(eval_count, concurrent_tasks[k].index)
    /\ UNCHANGED <<session_vars, sync_vars, mcp_vars, agent, calls, pc, index, results_map, ret,
                   evaluated, overtaken, fn_vars>>

\* Lines 50-51: the task's call.eval returns; the task ends with
\* (index, call, result).
TaskReturn(k) ==
    /\ concurrent_tasks[k].st = "running"
    /\ \E sys \in Systems :
         LET t == concurrent_tasks[k]
             config == extract(t.call.name, functions, agent).v
         IN /\ concurrent_tasks' = [concurrent_tasks EXCEPT
                   ![k].st = "finished",
                   ![k].result = Some(eval(t.call, config, sys))]
            /\ evaluated' = insert(evaluated, t.index, Evaluation(t.call, config, sys))
    /\ overtaken' = (overtaken \/ \E j \in 1..(k - 1) : ~Ended(concurrent_tasks[j]))
    /\ UNCHANGED <<session_vars, sync_vars, mcp_vars, agent, calls, pc, index, results_map, ret, eval_count,
                   fn_vars>>

\* The task panics: its JoinHandle yields a JoinError.
TaskPanics(k) ==
    /\ concurrent_tasks[k].st = "running"
    /\ concurrent_tasks' = [concurrent_tasks EXCEPT ![k].st = "panicked"]
    /\ UNCHANGED <<session_vars, sync_vars, mcp_vars, agent, calls, pc, index, results_map, ret, history, fn_vars>>

\* A collection that leaves out the tasks whose call failed.
RECURSIVE CollectSuccessful(_, _)
CollectSuccessful(map, tasks) ==
    IF tasks = <<>> THEN map
    ELSE CollectSuccessful(
             IF Head(tasks).result.x.ok
             THEN insert(map, Head(tasks).index,
                         new_from_eval_result(Head(tasks).call, Head(tasks).result.x))
             ELSE map,
             Tail(tasks))

\* Lines 64-73: the results of the tasks go into the map in the order of
\* the handles.
RECURSIVE Collect(_, _)
Collect(map, tasks) ==
    IF tasks = <<>> THEN map
    ELSE Collect(insert(map, Head(tasks).index,
                        new_from_eval_result(Head(tasks).call, Head(tasks).result.x)),
                 Tail(tasks))

\* A reconstruction from the highest position down.
ReconstructReversed(map) ==
    LET n == Cardinality(DOMAIN map) IN
    IF \A i \in 0..(n - 1) : i \in DOMAIN map
    THEN Some([i \in 1..n |-> map[n - i]])
    ELSE None

\* Lines 76-84: Some(vector) of the entries 0..len-1, or None if one is missing.
Reconstruct(map) ==
    LET n == Cardinality(DOMAIN map) IN
    IF \A i \in 0..(n - 1) : i \in DOMAIN map
    THEN Some([i \in 1..n |-> map[i - 1]])
    ELSE None

\* A collapse that also takes the entries without output out of a list
\* that has others.
CollapseDropsDone(final_output) ==
    SelectSeq(final_output,
              LAMBDA r : ~(is_null(r.output) \/ r.output = DONE))

\* No collapse: the list is returned as it is.
CollapseNever(final_output) == final_output

\* Lines 86-91.
Collapse(final_output) ==
    IF \A i \in DOMAIN final_output :
           is_null(final_output[i].output) \/ final_output[i].output = DONE
    THEN <<>>
    ELSE final_output

\* A join that takes the null value as the result of a panicked task.
JoinIgnoresPanics ==
    /\ pc = "loop" /\ index = Len(calls)
    /\ \A k \in DOMAIN concurrent_tasks : Ended(concurrent_tasks[k])
    /\ results_map' = Collect(results_map,
           [k \in DOMAIN concurrent_tasks |->
               IF concurrent_tasks[k].st = "panicked"
               THEN [concurrent_tasks[k] EXCEPT !.result = Some(Ok(Null))]
               ELSE concurrent_tasks[k]])
    /\ ret' = LET final_output == Reconstruct(results_map') IN
              IF final_output.some
              THEN Some(Ok(Collapse(final_output.x)))
              ELSE Some(Err(<<"Failed to reconstruct tool call results in order">>))
    /\ pc' = "done"
    /\ UNCHANGED <<session_vars, sync_vars, mcp_vars, agent, calls, index, concurrent_tasks, history, fn_vars>>

\* Lines 61-92: join_all returns once every task has ended; then the
\* results are collected, put in order and returned.
Join ==
    /\ pc = "loop" /\ index = Len(calls)
    /\ \A k \in DOMAIN concurrent_tasks : Ended(concurrent_tasks[k])
    /\ IF \E k \in DOMAIN concurrent_tasks : concurrent_tasks[k].st = "panicked"
       THEN /\ results_map' =
                 Collect(results_map, SubSeq(concurrent_tasks, 1,
                     (CHOOSE k \in DOMAIN concurrent_tasks :
                         /\ concurrent_tasks[k].st = "panicked"
                         /\ \A j \in 1..(k - 1) : concurrent_tasks[j].st # "panicked") - 1))
            /\ ret' = Some(Err(<<"A concurrent tool call task failed: ", "task panicked">>))
       ELSE /\ results_map' = Collect(results_map, concurrent_tasks)
            /\ ret' = LET final_output == Reconstruct(results_map') IN
                      IF final_output.some
                      THEN Some(Ok(Collapse(final_output.x)))
                      ELSE Some(Err(<<"Failed to reconstruct tool call results in order">>))
    /\ pc' = "done"
    /\ UNCHANGED <<session_vars, sync_vars, mcp_vars, agent, calls, index, concurrent_tasks, history, fn_vars>>

Next ==
    \/ Begin
    \/ ResolveFails
    \/ SpawnTask
    \/ EvalStart
    \/ EvalReturn
    \/ \E k \in DOMAIN concurrent_tasks : TaskStart(k)
    \/ \E k \in DOMAIN concurrent_tasks : TaskReturn(k)
    \/ \E k \in DOMAIN concurrent_tasks : TaskPanics(k)
    \/ Join

Spec == Init /\ [][Next]_vars

\* ------------------------------------------------- functions on their own
\* The variables of eval_tool_calls while a function is applied on its own.
Idle(at) ==
    /\ agent = None
    /\ calls = <<>>
    /\ pc = at
    /\ index = 0
    /\ results_map = EmptyResults
    /\ concurrent_tasks = <<>>
    /\ ret = None
    /\ evaluated = NoEvaluations
    /\ overtaken = FALSE
    /\ eval_count = NoCounts
    /\ fn_ret = None

\* ToolCall::dedup applied to a call list.
DedupNames == {"f", "g"}
DedupIds == {None, Some("A"), Some("B")}
DedupCalls == {ToolCall(n, ObjectArguments, i) : n \in DedupNames, i \in DedupIds}

InitDedup ==
    /\ Idle("apply_dedup")
    /\ McpOff
    /\ SessionOff
    /\ fn_arg \in SeqsUpTo(DedupCalls, MaxDedupLen)

ApplyDedup ==
    /\ pc = "apply_dedup" /\ ~fn_ret.some
    /\ fn_ret' = Some(dedup(fn_arg))
    /\ UNCHANGED <<session_vars, sync_vars, mcp_vars, agent, calls, pc, index, results_map, concurrent_tasks, ret,
                   history, fn_arg>>

SpecDedup == InitDedup /\ [][ApplyDedup]_vars

\* ToolCall::eval applied to a call, its configuration and what the
\* operating system answers.
Text_q1 == <<"{", "\"", "q", "\"", ":", "1", "}">>
EvalArguments ==
    { ObjectArguments, NumberArguments, Null, Array(<<>>),
      String(Text_q1), String(<<"1">>), String(Text_hello) }
EvalConfigs ==
    { from_declaration(functions[1]), from_agent(Coder.functions[1], Coder).x }

NoPath == System(None, Exit(TRUE, <<>>, <<>>), TRUE, Ok(Text_x1))
ReadFails == System(Path, Exit(TRUE, <<>>, <<>>), TRUE, Err(<<"Permission denied">>))
WritesEmpty == System(Path, Exit(TRUE, Text_x1, <<>>), TRUE, Ok(<<>>))
FailsAfterWriting == System(Path, Exit(FALSE, <<>>, <<"e">>), TRUE, Ok(Text_x1))
WritesSpacedJson ==
    System(Path, Exit(TRUE, <<>>, <<>>), TRUE, Ok(<<" ">> \o Text_x1 \o <<"\n">>))
WritesBrokenJson ==
    System(Path, Exit(TRUE, <<>>, <<>>), TRUE, Ok(<<"{", "\"", "x", "\"", ":">>))
WritesTwoValues ==
    System(Path, Exit(TRUE, <<>>, <<>>), TRUE, Ok(Text_x1 \o <<" ", "1">>))
WritesString ==
    System(Path, Exit(TRUE, <<>>, <<>>), TRUE, Ok(<<"\"", "D", "O", "N", "E", "\"">>))
WritesArray ==
    System(Path, Exit(TRUE, <<>>, <<>>), TRUE, Ok(<<"[", "1", ",", "t", "r", "u", "e", "]">>))
AllSystems ==
    Systems \cup { WritesNull, NoPath, ReadFails, WritesEmpty, FailsAfterWriting,
                   WritesSpacedJson, WritesBrokenJson, WritesTwoValues, WritesString,
                   WritesArray }

InitEval ==
    /\ Idle("apply_eval")
    /\ McpOff
    /\ SessionOff
    /\ fn_arg \in { [call |-> ToolCall("seq_tool", a, None), config |-> c, sys |-> y] :
                      a \in EvalArguments, c \in EvalConfigs, y \in AllSystems }

ApplyEval ==
    /\ pc = "apply_eval" /\ ~fn_ret.some
    /\ fn_ret' = Some(eval(fn_arg.call, fn_arg.config, fn_arg.sys))
    /\ UNCHANGED <<session_vars, sync_vars, mcp_vars, agent, calls, pc, index, results_map, concurrent_tasks, ret,
                   history, fn_arg>>

SpecEval == InitEval /\ [][ApplyEval]_vars

\* ToolCallConfig::extract applied to a name, a global store and an agent.
ExtractNames == {"seq_tool", "con_tool", "own_tool", "nope"}
ExtractStores ==
    { functions,
      <<>>,
      << Declaration("con_tool", FALSE, FALSE) >>,
      << Declaration("own_tool", TRUE, TRUE), Declaration("seq_tool", FALSE, TRUE) >>,
      << Declaration("seq_tool", TRUE, FALSE), Declaration("con_tool", TRUE, TRUE),
         Declaration("own_tool", FALSE, FALSE) >> }
Writer ==
    [ name |-> "writer",
      functions |-> << Declaration("seq_tool", TRUE, TRUE),
                       Declaration("own_tool", FALSE, TRUE) >>,
      variable_envs |-> NoEnvs ]
Bare == [name |-> "bare", functions |-> <<>>, variable_envs |-> NoEnvs]
ExtractAgents == {None, Some(Coder), Some(Writer), Some(Bare)}

InitExtract ==
    /\ Idle("apply_extract")
    /\ McpOff
    /\ SessionOff
    /\ fn_arg \in [name : ExtractNames, functions : ExtractStores, agent : ExtractAgents]

ApplyExtract ==
    /\ pc = "apply_extract" /\ ~fn_ret.some
    /\ fn_ret' = Some(extract(fn_arg.name, fn_arg.functions, fn_arg.agent))
    /\ UNCHANGED <<session_vars, sync_vars, mcp_vars, agent, calls, pc, index, results_map, concurrent_tasks, ret,
                   history, fn_arg>>

SpecExtract == InitExtract /\ [][ApplyExtract]_vars

\* ------------------------------------------------- the child's environment
\* PATH_SEP of the builds that are not for windows.
PATH_SEP == <<":">>
\* Config::agent_functions_dir(cmd_name).join("bin") and
\* Config::functions_bin_dir(), as texts.
agent_bin_dir(cmd_name) == <<"agents/", cmd_name, "/bin">>
functions_bin_dir == <<"functions/bin">>

\* The directories with the global one first.
BinDirsGlobalFirst(cmd_name, cmd_args, dir_exists) ==
    <<functions_bin_dir>>
    \o (IF Len(cmd_args) > 1 /\ dir_exists THEN <<agent_bin_dir(cmd_name)>> ELSE <<>>)

\* Lines 334-341: the agent's directory, if the command has more than one
\* argument and the directory exists, then the global directory.
bin_dirs(cmd_name, cmd_args, dir_exists) ==
    (IF Len(cmd_args) > 1 /\ dir_exists THEN <<agent_bin_dir(cmd_name)>> ELSE <<>>)
    \o <<functions_bin_dir>>

\* Lines 343-347: each directory followed by PATH_SEP, joined.
RECURSIVE prepend_path(_)
prepend_path(dirs) ==
    IF dirs = <<>> THEN <<>> ELSE Head(dirs) \o PATH_SEP \o prepend_path(Tail(dirs))

\* Lines 334-351: the environment run_llm_function hands to
\* run_command_with_output, or the error when the process has no PATH.
child_envs(cmd_name, cmd_args, envs, env, dir_exists) ==
    IF "PATH" \notin DOMAIN env THEN Err(<<"No PATH environment variable">>)
    ELSE Ok(insert(insert(envs, "PATH",
                prepend_path(bin_dirs(cmd_name, cmd_args, dir_exists)) \o env["PATH"]),
            "LLM_OUTPUT", <<"temp_file">>))

\* The environment of the calling process after run_command_with_output
\* ran the child with its own environment map.
run_command_with_output(env, envs) == env

\* The process environments: with a PATH, with an empty PATH, without.
ProcessEnvs ==
    { [k \in {"PATH", "HOME"} |-> IF k = "PATH" THEN <<"/usr/bin", ":", "/bin">> ELSE <<"/root">>],
      [k \in {"PATH"} |-> <<>>],
      [k \in {"HOME"} |-> <<"/root">>] }

\* run_llm_function applied to the command of a resolved name.
InitPath ==
    /\ Idle("apply_path")
    /\ McpOff
    /\ SessionOff
    /\ fn_arg \in { a \in [name : ExtractNames, functions : ExtractStores,
                           agent : ExtractAgents, env : ProcessEnvs,
                           dir_exists : BOOLEAN] :
                       extract(a.name, a.functions, a.agent).ok }

ApplyPath ==
    /\ pc = "apply_path" /\ ~fn_ret.some
    /\ LET config == extract(fn_arg.name, fn_arg.functions, fn_arg.agent).v
           cmd_args == Append(config.args, to_string(ObjectArguments))
           child == child_envs(config.cmd, cmd_args, config.envs, fn_arg.env,
                               fn_arg.dir_exists)
       IN fn_ret' = Some([ child |-> child,
                           env |-> IF child.ok
                                   THEN run_command_with_output(fn_arg.env, child.v)
                                   ELSE fn_arg.env ])
    /\ UNCHANGED <<session_vars, sync_vars, mcp_vars, agent, calls, pc, index, results_map, concurrent_tasks, ret,
                   history, fn_arg>>

SpecPath == InitPath /\ [][ApplyPath]_vars

\* ------------------------------------------------- McpAdapter and ToolSet
main_vars == <<agent, calls, pc, index, results_map, concurrent_tasks, ret,
               history, fn_vars>>

ServerNamePool == <<"alpha", "beta", "gamma">>
ServerNames == {ServerNamePool[i] : i \in 1..MaxServers}

\* The files: each server name at most once, in any order.
ConfigFiles ==
    {f \in SeqsUpTo(ServerNames, MaxServers) :
        \A i, j \in DOMAIN f : i # j => f[i] # f[j]}

\* Config::load: the entries of mcpServers become the keys of a HashMap.
load(file) == {file[i] : i \in DOMAIN file}

\* What a server does when McpAdapter::init reaches it.
Refuses == [connects |-> FALSE, has_peer |-> FALSE, tools |-> Err(<<"unreachable">>)]
Peerless == [connects |-> TRUE, has_peer |-> FALSE, tools |-> Err(<<"unreachable">>)]
ListFails == [connects |-> TRUE, has_peer |-> TRUE, tools |-> Err(<<"list_all_tools failed">>)]
Serves(ts) == [connects |-> TRUE, has_peer |-> TRUE, tools |-> Ok(ts)]
ToolLists == {<<>>, <<"fetch">>, <<"search">>, <<"fetch", "search">>}
ServerBehaviours == {Refuses, Peerless, ListFails} \cup {Serves(ts) : ts \in ToolLists}

\* get_mcp_tools: one adapter per listed tool, each holding the server.
get_mcp_tools(server) ==
    LET listed == remote[server].tools IN
    IF listed.ok
    THEN Ok([i \in DOMAIN listed.v |-> McpToolAdapter(listed.v[i], server)])
    ELSE Err(listed.e)

\* ToolSet::add: each tool is inserted under its name, in the order of the
\* vector; an entry of the same name is replaced.
RECURSIVE add(_, _)
add(tools, new_tools) ==
    IF new_tools = <<>> THEN tools
    ELSE add(insert(tools, Head(new_tools).tool, Head(new_tools)), Tail(new_tools))

InitMcp ==
    /\ Idle("mcp")
    /\ SessionOff
    /\ fn_arg = <<>>
    /\ config_file \in ConfigFiles
    /\ remote \in [load(config_file) -> ServerBehaviours]
    /\ mcp_pc = "init"
    /\ pending = load(config_file)
    /\ clients = {}
    /\ toolset = EmptyToolSet
    /\ mcp_ret = None
    /\ called = 0
    /\ sent = 0
    /\ call_arg = None
    /\ request = None
    /\ call_ret = None

\* `?` in the loop of McpAdapter::init: the error is returned, clients and
\* toolset are dropped.
InitFails(name, e) ==
    /\ mcp_ret' = Some(Err(e))
    /\ mcp_pc' = "failed"
    /\ pending' = pending \ {name}
    /\ clients' = {}
    /\ toolset' = EmptyToolSet

\* A loop that goes on to the next server when one fails.
InitServerSkipsFailed(name) ==
    /\ mcp_pc = "init" /\ name \in pending
    /\ LET tools == get_mcp_tools(name) IN
       IF remote[name].connects /\ remote[name].has_peer /\ tools.ok
       THEN /\ toolset' = add(toolset, tools.v)
            /\ clients' = clients \cup {name}
       ELSE UNCHANGED <<toolset, clients>>
    /\ pending' = pending \ {name}
    /\ UNCHANGED <<mcp_pc, mcp_ret>>
    /\ UNCHANGED <<config_file, remote, called, sent, call_arg, request, call_ret, main_vars, session_vars, sync_vars>>

\* Lines 87-97: one turn of the loop over configs.servers, a HashMap: the
\* next entry is any entry not yet visited.
InitServer(name) ==
    /\ mcp_pc = "init" /\ name \in pending
    /\ LET tools == get_mcp_tools(name) IN
       IF ~remote[name].connects THEN InitFails(name, <<"connect failed">>)
       ELSE IF ~remote[name].has_peer
       THEN InitFails(name, <<"Could not get peer for server ", name>>)
       ELSE IF ~tools.ok THEN InitFails(name, tools.e)
       ELSE /\ toolset' = add(toolset, tools.v)
            /\ clients' = clients \cup {name}
            /\ pending' = pending \ {name}
            /\ UNCHANGED <<mcp_pc, mcp_ret>>
    /\ UNCHANGED <<config_file, remote, called, sent, call_arg, request, call_ret, main_vars, session_vars, sync_vars>>

\* Line 99: every entry was visited; the adapter is returned.
InitReturns ==
    /\ mcp_pc = "init" /\ pending = {}
    /\ mcp_ret' = Some(Ok([clients |-> clients, toolset |-> toolset]))
    /\ mcp_pc' = "ready"
    /\ UNCHANGED <<config_file, remote, pending, clients, toolset,
                   called, sent, call_arg, request, call_ret, main_vars, session_vars, sync_vars>>

CallToolResult(content, is_error) == [content |-> content, is_error |-> is_error]
\* What the server answers to call_tool.
Responses ==
    { Ok(CallToolResult(<<"hit">>, None)),
      Ok(CallToolResult(<<"tool failed">>, Some(TRUE))),
      Err(<<"transport closed">>) }

\* Arguments sent whatever the value is.
ArgumentsAlwaysSent(args) == Some(IF is_object(args) THEN args.m ELSE EmptyMap)

\* McpToolAdapter::call, lines 57-60.
arguments(args) == IF is_object(args) THEN Some(args.m) ELSE None

\* A failure of the server turned into an empty result.
CallResultSwallowsError(response) ==
    IF response.ok THEN Ok(response.v) ELSE Ok(CallToolResult(<<>>, None))

\* McpToolAdapter::call, lines 62-70: `?` on the answer, then Ok(result).
call_result(response) ==
    IF response.ok THEN Ok(response.v) ELSE Err(response.e)

CallNames == {"fetch", "search", "nope"}
McpArguments == {ObjectArguments, NumberArguments, Null, Array(<<>>), String(Text_hello)}

\* A call that answers an unknown name with an empty result.
ToolSetCallUnknownIsEmpty(name, args) ==
    /\ mcp_pc = "ready" /\ called < MaxToolCalls
    /\ called' = called + 1
    /\ call_arg' = Some([name |-> name, args |-> args])
    /\ IF name \notin DOMAIN toolset
       THEN /\ call_ret' = Some(Ok(CallToolResult(<<>>, None)))
            /\ request' = None
            /\ sent' = sent
       ELSE \E response \in Responses :
               /\ request' = Some([server |-> toolset[name].server,
                                    name |-> toolset[name].tool,
                                    arguments |-> arguments(args),
                                    response |-> response])
               /\ sent' = sent + 1
               /\ call_ret' = Some(call_result(response))
    /\ UNCHANGED <<config_file, remote, mcp_pc, pending, clients, toolset, mcp_ret,
                   main_vars, session_vars, sync_vars>>

\* ToolSet::call with McpToolAdapter::call.
ToolSetCall(name, args) ==
    /\ mcp_pc = "ready" /\ called < MaxToolCalls
    /\ called' = called + 1
    /\ call_arg' = Some([name |-> name, args |-> args])
    /\ IF name \notin DOMAIN toolset
       THEN /\ call_ret' = Some(Err(<<"Tool ", name, " not found">>))
            /\ request' = None
            /\ sent' = sent
       ELSE \E response \in Responses :
               /\ request' = Some([server |-> toolset[name].server,
                                    name |-> toolset[name].tool,
                                    arguments |-> arguments(args),
                                    response |-> response])
               /\ sent' = sent + 1
               /\ call_ret' = Some(call_result(response))
    /\ UNCHANGED <<config_file, remote, mcp_pc, pending, clients, toolset, mcp_ret,
                   main_vars, session_vars, sync_vars>>

NextMcp ==
    \/ \E name \in ServerNames : InitServer(name)
    \/ InitReturns
    \/ \E name \in CallNames, args \in McpArguments : ToolSetCall(name, args)

SpecMcp == InitMcp /\ [][NextMcp]_vars

\* ------------------------------------------------- Session
TEMP_SESSION_NAME == <<"temp">>
Timestamp == "20261103T101500"

\* Message::new; MessageContent is Text(text) or ToolCalls(calls).
Message(role, content) == [role |-> role, content |-> content, is_sync |-> FALSE]
TextContent(text) == [t |-> "text", text |-> text]
ToolCallsContent == [t |-> "tool_calls"]
\* MessageContent::to_text: the text, and nothing for tool calls.
to_text(content) == IF content.t = "text" THEN content.text ELSE <<>>

Role(name, prompt, model_id, temperature, top_p, use_tools) ==
    [name |-> name, prompt |-> prompt, model_id |-> model_id,
     temperature |-> temperature, top_p |-> top_p, use_tools |-> use_tools]
DefaultRole == Role(<<>>, <<>>, "gpt", None, None, None)
ShellRole == Role(<<"shell">>, <<"Be brief">>, "claude", Some(1), Some(1), Some("fs"))
Roles == {DefaultRole, ShellRole}
\* convert_option_string: an empty string is no name.
convert_option_string(value) == IF value = <<>> THEN None ELSE Some(value)

\* #[derive(Default)] of Session.
DefaultSession ==
    [model_id |-> "", temperature |-> None, top_p |-> None, use_tools |-> None,
     save_session |-> None, compress_threshold |-> None,
     role_name |-> None, agent_variables |-> <<>>, agent_instructions |-> <<>>,
     compressed_messages |-> <<>>, messages |-> <<>>,
     role_prompt |-> <<>>, name |-> <<>>, path |-> None, dirty |-> FALSE,
     save_session_this_time |-> FALSE, autoname |-> None, chat_id |-> None]

\* The fields serde writes and reads: those without #[serde(skip)].
Persisted ==
    {"model_id", "temperature", "top_p", "use_tools", "save_session",
     "compress_threshold", "role_name", "agent_variables", "agent_instructions",
     "compressed_messages", "messages"}
\* serde_yaml::to_string(&self): the persisted fields and no other.
to_yaml(self) == [f \in Persisted |-> self[f]]
\* serde_yaml::from_str: the skipped fields take their defaults.
from_yaml(content) ==
    [f \in DOMAIN DefaultSession |->
        IF f \in DOMAIN content THEN content[f] ELSE DefaultSession[f]]

\* Session::set_role.
set_role(self, role) ==
    [self EXCEPT !.model_id = role.model_id,
                 !.temperature = role.temperature,
                 !.top_p = role.top_p,
                 !.use_tools = role.use_tools,
                 !.role_name = convert_option_string(role.name),
                 !.role_prompt = role.prompt,
                 !.dirty = TRUE]

\* Session::new: the role of the configuration is set, and the session
\* starts clean.
Session_new(config, name) ==
    [set_role([DefaultSession EXCEPT !.name = name,
                                     !.save_session = config.save_session],
              config.role)
     EXCEPT !.dirty = FALSE]

\* AutoName::new and AutoName::new_from_chat_history.
AutoName_new(name) == [chat_history |-> None, name |-> Some(name)]
AutoName_new_from_chat_history(chat_history) ==
    [chat_history |-> Some(chat_history), name |-> None]
\* Session::autoname.
autoname(self) == IF self.autoname.some THEN self.autoname.x.name ELSE None

\* Session::load of a file that reads and parses, for a model the
\* configuration knows: a name under "_/" is a temporary session.
Session_load(config, name, path, content) ==
    LET parsed == from_yaml(content)
        named ==
            IF Head(name) = "_/"
            THEN [parsed EXCEPT
                    !.name = TEMP_SESSION_NAME,
                    !.path = None,
                    !.autoname =
                        IF Len(name) >= 4 /\ name[2] = Timestamp /\ name[3] = "-"
                        THEN Some(AutoName_new(SubSeq(name, 4, Len(name))))
                        ELSE None]
            ELSE [parsed EXCEPT !.name = name, !.path = Some(path)]
        known == {role \in config.roles : Some(role.name) = named.role_name}
    IN  IF named.role_name.some /\ known # {}
        THEN [named EXCEPT !.role_prompt = (CHOOSE role \in known : TRUE).prompt]
        ELSE named

\* Session::set_chat_id.
set_chat_id(self, chat_id) == [self EXCEPT !.chat_id = Some(chat_id), !.dirty = TRUE]

\* Session::clear_role.
clear_role(self) == [self EXCEPT !.role_name = None, !.role_prompt = <<>>]

\* Session::sync_agent.
sync_agent(self, an_agent) ==
    [self EXCEPT !.role_name = None,
                 !.role_prompt = an_agent.interpolated_instructions,
                 !.agent_variables = an_agent.variables,
                 !.agent_instructions = an_agent.interpolated_instructions]

\* Session::set_save_session.
set_save_session(self, value) ==
    IF self.save_session # value
    THEN [self EXCEPT !.save_session = value, !.dirty = TRUE]
    ELSE self

\* Session::set_save_session_this_time.
set_save_session_this_time(self) == [self EXCEPT !.save_session_this_time = TRUE]

\* Session::set_compress_threshold.
set_compress_threshold(self, value) ==
    IF self.compress_threshold # value
    THEN [self EXCEPT !.compress_threshold = value, !.dirty = TRUE]
    ELSE self

\* A compress that keeps only the latest batch of compressed messages.
CompressReplaces(self, prompt) ==
    [self EXCEPT
        !.compressed_messages = self.messages,
        !.messages = <<Message("system", TextContent(prompt))>>,
        !.dirty = TRUE]

\* Session::compress.
compress(self, prompt) ==
    LET leading ==
            IF self.messages # <<>> /\ self.messages[1].role = "system"
               /\ to_text(self.messages[1].content) # <<>>
            THEN Some(to_text(self.messages[1].content))
            ELSE None
        summary == IF leading.some THEN leading.x \o <<"\n\n">> \o prompt ELSE prompt
    IN  [self EXCEPT
            !.compressed_messages = self.compressed_messages \o self.messages,
            !.messages = <<Message("system", TextContent(summary))>>,
            !.dirty = TRUE]

\* Session::set_autoname of a name that is alphanumeric already.
set_autoname(self, value) == [self EXCEPT !.autoname = Some(AutoName_new(value))]

\* What an operation that may write returns: the session it leaves, its
\* Result, the file it wrote and whether it asked "Save session?".
Outcome(self, result, written, asked) ==
    [self |-> self, ret |-> result, written |-> written, asked |-> asked]

\* session_dir.join(format!("{session_name}.yaml")).
session_path(session_dir, session_name) == session_dir \o session_name \o <<".yaml">>

\* Session::save.  disk says which of ensure_parent_exists and write succeed.
save(self, session_name, path, disk) ==
    IF ~disk.parent_ok
    THEN Outcome(self, Err(<<"Failed to create directory">>), None, FALSE)
    ELSE LET pathed == [self EXCEPT !.path = Some(path)] IN
         IF ~disk.write_ok
         THEN Outcome(pathed, Err(<<"Failed to write session">>), None, FALSE)
         ELSE Outcome([pathed EXCEPT !.name = session_name, !.dirty = FALSE],
                      Ok(<<>>),
                      Some([path |-> path, content |-> to_yaml(pathed)]),
                      FALSE)

\* Session::exit from line 426 on, with the local save_session.  terminal
\* holds the answers to "Save session?" and to "Session name:", each a Result.
exit_saving(self, save_session, session_dir, is_repl, terminal, disk) ==
    LET saved_as(session_name, dir, asked) ==
            [save(self, session_name, session_path(dir, session_name), disk)
             EXCEPT !.asked = asked]
    IN  IF ~(self.dirty /\ save_session # Some(FALSE))
        THEN Outcome(self, Ok(<<>>), None, FALSE)
        ELSE IF ~save_session.some
        THEN IF ~is_repl
             THEN Outcome(self, Ok(<<>>), None, FALSE)
             ELSE IF ~terminal.ans.ok
             THEN Outcome(self, Err(terminal.ans.e), None, TRUE)
             ELSE IF ~terminal.ans.v
             THEN Outcome(self, Ok(<<>>), None, TRUE)
             ELSE IF self.name = TEMP_SESSION_NAME
             THEN IF ~terminal.name.ok
                  THEN Outcome(self, Err(terminal.name.e), None, TRUE)
                  ELSE saved_as(terminal.name.v, session_dir, TRUE)
             ELSE saved_as(self.name, session_dir, TRUE)
        ELSE IF save_session = Some(TRUE) /\ self.name = TEMP_SESSION_NAME
        THEN IF ~disk.dir_ok
             THEN Outcome(self, Err(<<"Failed to create directory">>), None, FALSE)
             ELSE saved_as(IF autoname(self).some
                           THEN <<Timestamp, "-">> \o autoname(self).x
                           ELSE <<Timestamp>>,
                           session_dir \o <<"_">>, FALSE)
        ELSE saved_as(self.name, session_dir, FALSE)

\* An exit that forgets save_session_this_time.
ExitForgetsThisTime(self, session_dir, is_repl, terminal, disk) ==
    exit_saving(self, self.save_session, session_dir, is_repl, terminal, disk)

\* Session::exit.
exit(self, session_dir, is_repl, terminal, disk) ==
    exit_saving(self,
                IF self.save_session_this_time THEN Some(TRUE) ELSE self.save_session,
                session_dir, is_repl, terminal, disk)

\* Input: what Session::add_message reads of it.  built is what
\* input.role().build_messages(input) returns.
Input(continue_output, regenerate, raw, built, tool_calls) ==
    [continue_output |-> continue_output, regenerate |-> regenerate, raw |-> raw,
     built |-> built, tool_calls |-> tool_calls]

\* messages.last_mut() when its content is MessageContent::Text: its text.
LastText(messages) ==
    IF messages # <<>> /\ messages[Len(messages)].content.t = "text"
    THEN Some(messages[Len(messages)].content.text)
    ELSE None
\* The last message with its text replaced, if it is a text.
WithLastText(messages, text) ==
    IF LastText(messages).some
    THEN [messages EXCEPT ![Len(messages)].content.text = text]
    ELSE messages

\* Session::add_message.
add_message(self, input, output) ==
    LET with_input ==
            IF self.messages = <<>> THEN input.built
            ELSE Append(self.messages, Message("user", TextContent(input.raw)))
        with_tools ==
            IF input.tool_calls.some
            THEN Append(with_input, Message("tool", ToolCallsContent))
            ELSE with_input
        named ==
            IF self.messages = <<>> /\ self.name = TEMP_SESSION_NAME
               /\ self.save_session = Some(TRUE)
            THEN Some(AutoName_new_from_chat_history(
                        <<"USER: ">> \o input.raw \o <<"\nASSISTANT: ">>
                        \o output \o <<"\n">>))
            ELSE self.autoname
    IN  IF input.continue_output.some
        THEN [self EXCEPT !.messages = WithLastText(self.messages, LastText(self.messages).x \o output),
                          !.dirty = TRUE]
        ELSE IF input.regenerate
        THEN [self EXCEPT !.messages = WithLastText(self.messages, output),
                          !.dirty = TRUE]
        ELSE [self EXCEPT
                !.messages = Append(with_tools, Message("assistant", TextContent(output))),
                !.autoname = named,
                !.dirty = TRUE]

\* Session::clear_messages.
clear_messages(self) ==
    [self EXCEPT !.messages = <<>>, !.compressed_messages = <<>>,
                 !.autoname = None, !.dirty = TRUE]

\* RoleLike for Session: set_model, set_temperature, set_top_p, set_use_tools.
set_model(self, model_id) ==
    IF self.model_id # model_id
    THEN [self EXCEPT !.model_id = model_id, !.dirty = TRUE]
    ELSE self
set_temperature(self, value) ==
    IF self.temperature # value
    THEN [self EXCEPT !.temperature = value, !.dirty = TRUE]
    ELSE self
set_top_p(self, value) ==
    IF self.top_p # value THEN [self EXCEPT !.top_p = value, !.dirty = TRUE] ELSE self
set_use_tools(self, value) ==
    IF self.use_tools # value
    THEN [self EXCEPT !.use_tools = value, !.dirty = TRUE]
    ELSE self

\* The configurations, names and files a session starts from.
SaveSettings == {None, Some(TRUE), Some(FALSE)}
SessionConfigs ==
    {[role |-> role, save_session |-> value, roles |-> Roles] :
        role \in Roles, value \in SaveSettings}
SessionNames == {TEMP_SESSION_NAME, <<"work">>}
LoadNames == {<<"work">>, <<"_/", Timestamp, "-", "topic">>}
SessionDir == <<"sessions">>
Chatted ==
    to_yaml([DefaultSession EXCEPT
        !.model_id = "claude",
        !.role_name = Some(<<"shell">>),
        !.messages = <<Message("system", TextContent(<<"Be brief">>)),
                       Message("user", TextContent(<<"hi">>)),
                       Message("assistant", TextContent(<<"ok">>))>>])
Summarised ==
    to_yaml([DefaultSession EXCEPT
        !.model_id = "gpt",
        !.save_session = Some(TRUE),
        !.compressed_messages = <<Message("user", TextContent(<<"hi">>)),
                                  Message("assistant", TextContent(<<"ok">>))>>,
        !.messages = <<Message("system", TextContent(<<>>))>>])
SessionFiles == {Chatted, Summarised}

\* The arguments of the operations.
SessionAgent ==
    [interpolated_instructions |-> <<"You write code">>,
     variables |-> <<<<"lang", "rust">>>>]
ModelIds == {"gpt", "claude"}
Sampling == {None, Some(1)}
ToolChoices == {None, Some("fs")}
Thresholds == {None, Some(4000)}
Prompts == {<<"Summary">>}
BuiltWithPrompt ==
    <<Message("system", TextContent(<<"Be brief">>)),
      Message("user", TextContent(<<"hi">>))>>
BuiltPlain == <<Message("user", TextContent(<<"hi">>))>>
Inputs ==
    {Input(None, FALSE, <<"hi">>, BuiltWithPrompt, None),
     Input(None, FALSE, <<"hi">>, BuiltPlain, Some(<<"fs_ls">>)),
     Input(Some(<<"ok">>), FALSE, <<"hi">>, BuiltPlain, None),
     Input(None, TRUE, <<"hi">>, BuiltPlain, None)}
Outputs == {<<"ok">>}
Terminals ==
    {[ans |-> Ok(TRUE), name |-> Ok(<<"typed">>)],
     [ans |-> Ok(TRUE), name |-> Err(<<"cancelled">>)],
     [ans |-> Ok(FALSE), name |-> Ok(<<"typed">>)],
     [ans |-> Err(<<"cancelled">>), name |-> Ok(<<"typed">>)]}
Disks ==
    {[dir_ok |-> TRUE, parent_ok |-> TRUE, write_ok |-> TRUE],
     [dir_ok |-> FALSE, parent_ok |-> TRUE, write_ok |-> TRUE],
     [dir_ok |-> TRUE, parent_ok |-> FALSE, write_ok |-> TRUE],
     [dir_ok |-> TRUE, parent_ok |-> TRUE, write_ok |-> FALSE]}

\* No sync_session call runs.
SyncOff ==
    /\ memory_client = None
    /\ chats = <<>>
    /\ sync_pc = <<>>
    /\ sync_local = <<>>
    /\ sync_ret = <<>>

\* A session made by Session::new, or loaded by Session::load from a file
\* Session::save wrote.
InitSession ==
    /\ Idle("session")
    /\ fn_arg = <<>>
    /\ McpOff
    /\ SyncOff
    /\ \/ /\ \E config \in SessionConfigs, name \in SessionNames :
                session = Some(Session_new(config, name))
          /\ on_disk = None
       \/ \E config \in SessionConfigs, name \in LoadNames, content \in SessionFiles :
             LET path == session_path(SessionDir, name) IN
             /\ session = Some(Session_load(config, name, path, content))
             /\ on_disk = Some([path |-> path, content |-> content])
    /\ session_op = None
    /\ ops = 0

\* An operation that returns nothing and writes no file.
Pure(self) == Outcome(self, Ok(<<>>), None, FALSE)

\* One operation on the session: op names it, arg is its argument and out
\* its Outcome.
SessionStep(op, arg, out) ==
    /\ session.some /\ ops < MaxOps
    /\ session' = Some(out.self)
    /\ on_disk' = IF out.written.some THEN out.written ELSE on_disk
    /\ session_op' = Some([op |-> op, arg |-> arg, ret |-> out.ret,
                           asked |-> out.asked, wrote |-> out.written.some])
    /\ ops' = ops + 1
    /\ UNCHANGED <<sync_vars, mcp_vars, main_vars>>

NextSession ==
    \/ \E role \in Roles : SessionStep("set_role", role, Pure(set_role(session.x, role)))
    \/ SessionStep("clear_role", <<>>, Pure(clear_role(session.x)))
    \/ SessionStep("sync_agent", SessionAgent, Pure(sync_agent(session.x, SessionAgent)))
    \/ \E value \in SaveSettings :
          SessionStep("set_save_session", value, Pure(set_save_session(session.x, value)))
    \/ SessionStep("set_save_session_this_time", <<>>,
                   Pure(set_save_session_this_time(session.x)))
    \/ \E value \in Thresholds :
          SessionStep("set_compress_threshold", value,
                      Pure(set_compress_threshold(session.x, value)))
    \/ \E prompt \in Prompts :
          SessionStep("compress", prompt, Pure(compress(session.x, prompt)))
    \/ SessionStep("set_autoname", <<"topic">>, Pure(set_autoname(session.x, <<"topic">>)))
    \/ \E is_repl \in BOOLEAN, terminal \in Terminals, disk \in Disks :
          SessionStep("exit", <<>>, exit(session.x, SessionDir, is_repl, terminal, disk))
    \/ \E name \in SessionNames \ {TEMP_SESSION_NAME}, disk \in Disks :
          SessionStep("save", name,
                      save(session.x, name, session_path(SessionDir, name), disk))
    \/ \E input \in Inputs, output \in Outputs :
          SessionStep("add_message", input, Pure(add_message(session.x, input, output)))
    \/ SessionStep("clear_messages", <<>>, Pure(clear_messages(session.x)))
    \/ \E model_id \in ModelIds :
          SessionStep("set_model", model_id, Pure(set_model(session.x, model_id)))
    \/ \E value \in Sampling :
          SessionStep("set_temperature", value, Pure(set_temperature(session.x, value)))
    \/ \E value \in Sampling :
          SessionStep("set_top_p", value, Pure(set_top_p(session.x, value)))
    \/ \E value \in ToolChoices :
          SessionStep("set_use_tools", value, Pure(set_use_tools(session.x, value)))

SpecSession == InitSession /\ [][NextSession]_vars

\* ------------------------------------------------- sync_session
Callers == 1..MaxSyncs

\* The locals of a sync_session call before it has read anything.
NoLocals ==
    [summary |-> <<>>, existing_chat_id |-> None, session_name |-> <<>>,
     messages |-> <<>>, chat_id |-> None]

\* ChatMessage of a compressed message, as sync_session formats it.
ChatMessage(m) == [role |-> m.role, content |-> to_text(m.content), is_sync |-> TRUE]
unsynced(self) ==
    LET fresh == SelectSeq(self.compressed_messages, LAMBDA m : ~m.is_sync)
    IN  [i \in DOMAIN fresh |-> ChatMessage(fresh[i])]

\* The chat the memory server makes for chat_create.
Chat(session_id) == [sessionId |-> session_id, messages |-> <<>>, summary |-> None]

\* Session::set_messages_synced: every compressed message is marked synced.
set_messages_synced(self) ==
    [self EXCEPT !.compressed_messages =
        [i \in DOMAIN self.compressed_messages |->
            [self.compressed_messages[i] EXCEPT !.is_sync = TRUE]]]

\* Config::save_session(None): the session is saved under its own name.
save_session(self, disk) ==
    save(self, self.name, session_path(SessionDir, self.name), disk)

SyncDisks ==
    {[dir_ok |-> TRUE, parent_ok |-> TRUE, write_ok |-> TRUE],
     [dir_ok |-> TRUE, parent_ok |-> TRUE, write_ok |-> FALSE]}
SyncSessions ==
    {None,
     Some(Session_new([role |-> ShellRole, save_session |-> Some(TRUE), roles |-> Roles],
                      <<"work">>)),
     Some(Session_load([role |-> DefaultRole, save_session |-> None, roles |-> Roles],
                       <<"work">>, session_path(SessionDir, <<"work">>), Summarised))}

\* MaxSyncs calls of sync_session are made on one configuration.
InitSync ==
    /\ Idle("sync")
    /\ fn_arg = <<>>
    /\ McpOff
    /\ session \in SyncSessions
    /\ on_disk = None
    /\ session_op = None
    /\ ops = 0
    /\ memory_client \in {None, Some("memory")}
    /\ chats = <<>>
    /\ sync_pc = [c \in Callers |-> "compress"]
    /\ sync_local = [c \in Callers |-> NoLocals]
    /\ sync_ret = [c \in Callers |-> None]

\* `?` and `return`: the call ends with result.
SyncReturns(c, result) ==
    /\ sync_pc' = [sync_pc EXCEPT ![c] = "done"]
    /\ sync_ret' = [sync_ret EXCEPT ![c] = Some(result)]

\* config.write().save_session(name)?, then Ok(()).
SyncSaves(c, self) ==
    \E disk \in SyncDisks :
        LET out == save_session(self, disk) IN
        /\ session' = Some(out.self)
        /\ on_disk' = IF out.written.some THEN out.written ELSE on_disk
        /\ SyncReturns(c, out.ret)

\* compress_session(config).await?: it fails, or returns the summary with
\* the session left as it is or compressed with it.
CompressSession(c) ==
    /\ sync_pc[c] = "compress"
    /\ \/ /\ SyncReturns(c, Err(<<"compress_session failed">>))
          /\ UNCHANGED <<session, sync_local>>
       \/ /\ sync_pc' = [sync_pc EXCEPT ![c] = "read"]
          /\ sync_local' = [sync_local EXCEPT ![c].summary = <<"Summary">>]
          /\ \/ UNCHANGED session
             \/ /\ session.some /\ session.x.messages # <<>>
                /\ session' = Some(compress(session.x, <<"Summary">>))
          /\ UNCHANGED sync_ret
    /\ UNCHANGED <<on_disk, session_op, ops, memory_client, chats, mcp_vars, main_vars>>

\* The block under config.read(): lines 14-46.
ReadConfig(c) ==
    /\ sync_pc[c] = "read"
    /\ IF ~memory_client.some
       THEN /\ IF session.some
               THEN SyncSaves(c, session.x)
               ELSE SyncReturns(c, Ok(<<>>)) /\ UNCHANGED <<session, on_disk>>
            /\ UNCHANGED sync_local
       ELSE IF ~session.some
       THEN /\ SyncReturns(c, Err(<<"No active session to upload">>))
            /\ UNCHANGED <<session, on_disk, sync_local>>
       ELSE /\ sync_local' = [sync_local EXCEPT
                                ![c].session_name = session.x.name,
                                ![c].existing_chat_id = session.x.chat_id,
                                ![c].chat_id = session.x.chat_id,
                                ![c].messages = unsynced(session.x)]
            /\ sync_pc' = [sync_pc EXCEPT ![c] =
                             IF session.x.chat_id.some THEN "add" ELSE "create"]
            /\ UNCHANGED <<session, on_disk, sync_ret>>
    /\ UNCHANGED <<session_op, ops, memory_client, chats, mcp_vars, main_vars>>

\* chat_create(&memory_client, &session_name).await?: the server makes a
\* chat and answers with its id, or the request fails.
ChatCreate(c) ==
    /\ sync_pc[c] = "create"
    /\ \/ /\ SyncReturns(c, Err(<<"Failed to create chat">>))
          /\ UNCHANGED <<chats, sync_local>>
       \/ /\ chats' = Append(chats, Chat(sync_local[c].session_name))
          /\ sync_local' = [sync_local EXCEPT ![c].chat_id = Some(Len(chats) + 1)]
          /\ sync_pc' = [sync_pc EXCEPT ![c] = "set"]
          /\ UNCHANGED sync_ret
    /\ UNCHANGED <<session, on_disk, session_op, ops, memory_client, mcp_vars, main_vars>>

\* config.write().session.as_mut().context(..)?.set_chat_id(&new_chat_id).
SetChatId(c) ==
    /\ sync_pc[c] = "set"
    /\ IF ~session.some
       THEN /\ SyncReturns(c, Err(<<"Session disappeared">>))
            /\ UNCHANGED session
       ELSE /\ session' = Some(set_chat_id(session.x, sync_local[c].chat_id.x))
            /\ sync_pc' = [sync_pc EXCEPT ![c] = "add"]
            /\ UNCHANGED sync_ret
    /\ UNCHANGED <<on_disk, session_op, ops, memory_client, chats, sync_local,
                   mcp_vars, main_vars>>

\* chat_add_messages(&memory_client, &chat_id, messages).await?.
ChatAddMessages(c) ==
    /\ sync_pc[c] = "add"
    /\ \/ /\ SyncReturns(c, Err(<<"API sync failed">>))
          /\ UNCHANGED chats
       \/ /\ chats' = [chats EXCEPT ![sync_local[c].chat_id.x].messages =
                                        @ \o sync_local[c].messages]
          /\ sync_pc' = [sync_pc EXCEPT ![c] = "summary"]
          /\ UNCHANGED sync_ret
    /\ UNCHANGED <<session, on_disk, session_op, ops, memory_client, sync_local,
                   mcp_vars, main_vars>>

\* chat_set_summary(..).await?, then set_messages_synced and save_session.
ChatSetSummary(c) ==
    /\ sync_pc[c] = "summary"
    /\ \/ /\ SyncReturns(c, Err(<<"Failed to set summary">>))
          /\ UNCHANGED <<chats, session, on_disk>>
       \/ /\ chats' = [chats EXCEPT ![sync_local[c].chat_id.x].summary =
                                        Some(sync_local[c].summary)]
          /\ SyncSaves(c, set_messages_synced(session.x))
    /\ UNCHANGED <<session_op, ops, memory_client, sync_local, mcp_vars, main_vars>>

NextSync ==
    \E c \in Callers :
        \/ CompressSession(c)
        \/ ReadConfig(c)
        \/ ChatCreate(c)
        \/ SetChatId(c)
        \/ ChatAddMessages(c)
        \/ ChatSetSummary(c)

SpecSync == InitSync /\ [][NextSync]_vars

\* ------------------------------------------------- properties
Resolves(call) == extract(call.name, functions, agent).ok
Concurrent(call) == extract(call.name, functions, agent).v.concurrent
NoPanic == \A k \in DOMAIN concurrent_tasks : concurrent_tasks[k].st # "panicked"
ReturnedOk == pc = "done" /\ ret.some /\ ret.x.ok
IsError(v) == is_object(v) /\ K_error \in DOMAIN v.m /\ v.m[K_error] = Bool(TRUE)
ExitedNonZero(e) == e.sys.some /\ e.sys.x.run.ok /\ ~e.sys.x.run.v.success
Failed(i) == i \in DOMAIN evaluated /\ ~evaluated[i].result.ok
Object_x1 == Object(MapInsert(EmptyMap, <<"x">>, Number(<<"1">>)))
Object_hello == Object(MapInsert(EmptyMap, K_output, String(Text_hello)))

\* C1: partial-failure isolation.  In a batch whose calls all resolve and
\* whose tasks all ended normally, when the execution of a call failed the
\* batch returns Ok with one result per call at the call's own position: the
\* failed call's output is an object with "error": true, every call whose
\* execution succeeded carries what its own eval returned ("DONE" for null).
PartialFailureIsolation ==
    ( /\ pc = "done" /\ NoPanic
      /\ \A i \in DOMAIN calls : Resolves(calls[i])
      /\ \E i \in DOMAIN evaluated : Failed(i) )
    => /\ ret.x.ok
       /\ Len(ret.x.v) = Len(calls)
       /\ \A i \in DOMAIN calls :
            /\ (i - 1) \in DOMAIN evaluated
            /\ ret.x.v[i].call = calls[i]
            /\ IF evaluated[i - 1].result.ok
               THEN ret.x.v[i].output =
                        (IF is_null(evaluated[i - 1].result.v) THEN DONE
                         ELSE evaluated[i - 1].result.v)
               ELSE IsError(ret.x.v[i].output)

\* C1 witness: three concurrent calls [ok, failing, ok]; the middle child
\* exited non-zero, the others' outputs are {"x":1} and {"output":"hello"}.
PartialFailureWitness ==
    /\ ReturnedOk /\ Len(calls) = 3 /\ Len(concurrent_tasks) = 3
    /\ ExitedNonZero(evaluated[1])
    /\ Len(ret.x.v) = 3
    /\ ret.x.v[1].output = Object_x1
    /\ IsError(ret.x.v[2].output)
    /\ ret.x.v[3].output = Object_hello

\* C2: a call whose name does not resolve fails alone: the batch returns Ok
\* with one result per call, the unresolvable call's being an error object.
UnresolvedCallFailsAlone ==
    ( /\ pc = "done" /\ NoPanic
      /\ \E i \in DOMAIN calls : ~Resolves(calls[i]) )
    => /\ ret.x.ok
       /\ Len(ret.x.v) = Len(calls)
       /\ \A i \in DOMAIN calls : ~Resolves(calls[i]) => IsError(ret.x.v[i].output)

\* C3: whatever the order in which the tasks end, the returned list is in
\* the order of the deduplicated calls: entry i is the result recorded under
\* position i - 1, which is the result of call i.
OrderByPosition ==
    (ReturnedOk /\ ret.x.v # <<>>)
    => \A i \in DOMAIN ret.x.v :
          /\ ret.x.v[i] = results_map[i - 1]
          /\ ret.x.v[i].call = calls[i]
          /\ \A k \in DOMAIN concurrent_tasks :
                concurrent_tasks[k].index = i - 1 =>
                    ret.x.v[i] = new_from_eval_result(concurrent_tasks[k].call,
                                                      concurrent_tasks[k].result.x)

\* C3 witness: a later task ended before an earlier one, and the list of
\* two different results is returned.
OrderWitness ==
    /\ ReturnedOk /\ overtaken
    /\ Len(ret.x.v) >= 2
    /\ ret.x.v[1].output # ret.x.v[2].output
    /\ ret.x.v[1].call # ret.x.v[2].call

\* C4 as stated: the returned list has as many entries as the deduplicated
\* call list, entry i being the result of call i.
ResultsMatchCalls ==
    ReturnedOk
    => /\ Len(ret.x.v) = Len(calls)
       /\ \A i \in DOMAIN calls : ret.x.v[i].call = calls[i]

AllDone == \A i \in DOMAIN results_map :
               is_null(results_map[i].output) \/ results_map[i].output = DONE

\* C4 amended: the returned list is empty when every output is null or
\* "DONE"; otherwise it has as many entries as the deduplicated call list,
\* entry i being the result of call i.
ResultsMatchCallsUnlessCollapsed ==
    ReturnedOk
    => IF AllDone
       THEN ret.x.v = <<>>
       ELSE /\ Len(ret.x.v) = Len(calls)
            /\ \A i \in DOMAIN calls : ret.x.v[i].call = calls[i]

\* C4 witness: three results are returned for three calls, one of them "DONE".
ResultsMatchWitness ==
    /\ ReturnedOk /\ Len(calls) = 3 /\ Len(ret.x.v) = 3
    /\ \E i \in DOMAIN ret.x.v : ret.x.v[i].output = DONE
    /\ \E i \in DOMAIN ret.x.v : Concurrent(calls[i])
    /\ \E i \in DOMAIN ret.x.v : ~Concurrent(calls[i])

\* The calls of cs at the positions of keep, in their order.
RECURSIVE AtPositions(_, _)
AtPositions(cs, keep) ==
    IF cs = <<>> THEN <<>>
    ELSE AtPositions(SubSeq(cs, 1, Len(cs) - 1), keep)
         \o (IF Len(cs) \in keep THEN <<cs[Len(cs)]>> ELSE <<>>)

\* The positions whose call has no id, or an id no later call has.
LastOfId(cs) ==
    {i \in DOMAIN cs : cs[i].id.some => \A j \in (i + 1)..Len(cs) : cs[j].id # cs[i].id}

\* C5: dedup keeps, of the calls of one id, the one at the highest index,
\* and the survivors keep their order.
DedupKeepsLast ==
    (pc = "apply_dedup" /\ fn_ret.some)
    => fn_ret.x = AtPositions(fn_arg, LastOfId(fn_arg))

\* C5 witness: ids [A, B, A] give [B, the second A].
DedupKeepsLastWitness ==
    /\ pc = "apply_dedup" /\ fn_ret.some
    /\ fn_arg = << ToolCall("f", ObjectArguments, Some("A")),
                   ToolCall("f", ObjectArguments, Some("B")),
                   ToolCall("g", ObjectArguments, Some("A")) >>
    /\ fn_ret.x = << ToolCall("f", ObjectArguments, Some("B")),
                     ToolCall("g", ObjectArguments, Some("A")) >>

HasNoId(call) == ~call.id.some

\* C6: dedup removes no call without an id: the id-less calls of the result
\* are the id-less calls of the input, one for one and in order.
DedupKeepsIdless ==
    (pc = "apply_dedup" /\ fn_ret.some)
    => SelectSeq(fn_ret.x, HasNoId) = SelectSeq(fn_arg, HasNoId)

\* C6 witness: the same id-less call twice, among two calls of one id of
\* which one is removed; both id-less calls are in the result.
DedupKeepsIdlessWitness ==
    /\ pc = "apply_dedup" /\ fn_ret.some
    /\ Len(fn_arg) = 4 /\ Len(fn_ret.x) = 3
    /\ SelectSeq(fn_ret.x, HasNoId) = << ToolCall("f", ObjectArguments, None),
                                         ToolCall("f", ObjectArguments, None) >>

\* C7: if every call of the batch has a result and every output is null or
\* "DONE", eval_tool_calls returns Ok with an empty list.
AllDoneReturnsEmpty ==
    ( /\ pc = "done" /\ calls # <<>>
      /\ DOMAIN results_map = 0..(Len(calls) - 1)
      /\ AllDone )
    => ret = Some(Ok(<<>>))

\* C7 witness: two calls, one run in sequence and one as a task, both
\* without output.
AllDoneWitness ==
    /\ ReturnedOk /\ Len(calls) = 2 /\ Len(concurrent_tasks) = 1
    /\ DOMAIN results_map = {0, 1}
    /\ AllDone
    /\ ret.x.v = <<>>

\* C8: no returned result has a null output; a call whose eval returned null
\* carries "DONE".
OutputNeverNull ==
    ReturnedOk
    => \A i \in DOMAIN ret.x.v :
          /\ ~is_null(ret.x.v[i].output)
          /\ (evaluated[i - 1].result.ok /\ is_null(evaluated[i - 1].result.v))
                => ret.x.v[i].output = DONE

\* C8 witness: a returned list with a "DONE" entry for a call whose child
\* succeeded and wrote nothing.
OutputNeverNullWitness ==
    /\ ReturnedOk
    /\ \E i \in DOMAIN ret.x.v :
          /\ evaluated[i - 1].sys = Some(WritesNothing)
          /\ ret.x.v[i].output = DONE

\* C9: the result of a call whose child exited non-zero has as output the
\* object {"error": true, "stdout": ..., "stderr": ...}.
NonZeroExitOutput ==
    ReturnedOk
    => \A i \in DOMAIN ret.x.v :
          ExitedNonZero(evaluated[i - 1]) =>
              ret.x.v[i].output = ExecutionFailed(evaluated[i - 1].sys.x.run.v.stdout,
                                                  evaluated[i - 1].sys.x.run.v.stderr)

\* The contents run_llm_function hands to eval, if the run got that far.
HasContents(a) ==
    /\ json_data(a.call, a.config.name).ok
    /\ a.sys.path.some /\ a.sys.run.ok /\ a.sys.run.v.success
    /\ a.sys.exists /\ a.sys.read.ok /\ a.sys.read.v # <<>>

\* C10: when the child succeeded and its output file has content, eval
\* returns the content parsed as JSON if it is valid JSON and
\* {"output": <content>} if it is not; {"x":1} gives {"x":1} and hello gives
\* {"output": "hello"}.
EvalReturnsFileContent ==
    (pc = "apply_eval" /\ fn_ret.some /\ HasContents(fn_arg))
    => LET text == fn_arg.sys.read.v IN
       /\ fn_ret.x.ok
       /\ from_str(text).ok => fn_ret.x.v = from_str(text).v
       /\ ~from_str(text).ok =>
              fn_ret.x.v = Object(MapInsert(EmptyMap, K_output, String(text)))
       /\ text = Text_x1 => fn_ret.x.v = Object_x1
       /\ text = Text_hello => fn_ret.x.v = Object_hello
       /\ text \in {<<"{", "\"", "x", "\"", ":">>, Text_x1 \o <<" ", "1">>}
              => fn_ret.x.v = Object(MapInsert(EmptyMap, K_output, String(text)))

\* C10 witness: the child wrote {"x":1} and eval returned the object.
EvalReturnsFileContentWitness ==
    /\ pc = "apply_eval" /\ fn_ret.some /\ HasContents(fn_arg)
    /\ fn_arg.sys.read.v = Text_x1
    /\ fn_ret.x = Ok(Object_x1)

\* eval spawned a child: the command was run and the system could start it.
SpawnedChild(a) == commands_run(a.call, a.config, a.sys) # <<>> /\ a.sys.run.ok
LastArgument(a) ==
    LET args == commands_run(a.call, a.config, a.sys)[1].args IN args[Len(args)]

\* C11: for every call for which eval spawns a child, the last command-line
\* argument is the serialization of a JSON object.
LastArgumentIsObject ==
    (pc = "apply_eval" /\ fn_ret.some /\ SpawnedChild(fn_arg))
    => /\ from_str(LastArgument(fn_arg)).ok
       /\ is_object(from_str(LastArgument(fn_arg)).v)

\* The arguments are neither an object nor a string that parses as JSON.
InvalidArguments(call) ==
    /\ ~is_object(call.arguments)
    /\ is_string(call.arguments) => ~from_str(call.arguments.s).ok
RawArguments(call) ==
    IF is_string(call.arguments) THEN call.arguments.s ELSE to_string(call.arguments)

\* C12: eval on arguments that are neither an object nor a string, or a
\* string that does not parse as JSON, fails with the invalid-arguments error
\* that ends with the raw arguments, and runs no command.
InvalidArgumentsRefused ==
    (pc = "apply_eval" /\ fn_ret.some /\ InvalidArguments(fn_arg.call))
    => /\ ~fn_ret.x.ok
       /\ fn_ret.x.e = <<"The call '">> \o fn_arg.config.name
                       \o <<"' has invalid arguments: ">> \o RawArguments(fn_arg.call)
       /\ commands_run(fn_arg.call, fn_arg.config, fn_arg.sys) = <<>>

\* C12 witness: the arguments are the string hello, the system would have
\* run the command, and eval failed with the text hello in its message.
InvalidArgumentsWitness ==
    /\ pc = "apply_eval" /\ fn_ret.some
    /\ fn_arg.call.arguments = String(Text_hello)
    /\ fn_arg.sys = WritesJson
    /\ ~fn_ret.x.ok
    /\ SubSeq(fn_ret.x.e, Len(fn_ret.x.e) - 4, Len(fn_ret.x.e)) = Text_hello

\* The agent is active and declares the name flagged agent-scoped; the
\* global store declares the name.
AgentScoped(a) ==
    /\ a.agent.some
    /\ \E i \in DOMAIN a.agent.x.functions :
          a.agent.x.functions[i].name = a.name /\ a.agent.x.functions[i].agent
GlobalDeclared(a) == \E i \in DOMAIN a.functions : a.functions[i].name = a.name
AgentDeclaration(a) ==
    a.agent.x.functions[CHOOSE i \in DOMAIN a.agent.x.functions :
                            a.agent.x.functions[i].name = a.name]
GlobalDeclaration(a) ==
    a.functions[CHOOSE i \in DOMAIN a.functions : a.functions[i].name = a.name]

\* C17: an agent-scoped function of the active agent resolves to the agent's
\* executable with the function name as leading argument and the agent's
\* variable environment, before any global declaration of the name; else a
\* global declaration resolves to the executable named after the tool with
\* no leading argument; the resolution fails, with "Function not found",
\* exactly when the name is in neither scope.
ExtractResolution ==
    (pc = "apply_extract" /\ fn_ret.some)
    => /\ fn_ret.x.ok <=> (AgentScoped(fn_arg) \/ GlobalDeclared(fn_arg))
       /\ AgentScoped(fn_arg) =>
             /\ fn_ret.x.v.cmd = fn_arg.agent.x.name
             /\ fn_ret.x.v.args = << <<fn_arg.name>> >>
             /\ fn_ret.x.v.envs = fn_arg.agent.x.variable_envs
             /\ fn_ret.x.v.concurrent = AgentDeclaration(fn_arg).allow_concurrency
       /\ (~AgentScoped(fn_arg) /\ GlobalDeclared(fn_arg)) =>
             /\ fn_ret.x.v.cmd = fn_arg.name
             /\ fn_ret.x.v.args = <<>>
             /\ fn_ret.x.v.envs = NoEnvs
             /\ fn_ret.x.v.concurrent = GlobalDeclaration(fn_arg).allow_concurrency
       /\ ~fn_ret.x.ok => fn_ret.x.e = <<"Function not found: ", fn_arg.name>>

\* C17 witness: con_tool is agent-scoped in the active agent coder and also
\* declared globally; the resolution invokes coder with con_tool first.
ExtractResolutionWitness ==
    /\ pc = "apply_extract" /\ fn_ret.some
    /\ fn_arg.name = "con_tool" /\ fn_arg.agent = Some(Coder) /\ fn_arg.functions = functions
    /\ fn_ret.x.ok
    /\ fn_ret.x.v.cmd = "coder" /\ fn_ret.x.v.args = << <<"con_tool">> >>

Panicked(k) == concurrent_tasks[k].st = "panicked"
AllResolve == \A i \in DOMAIN calls : Resolves(calls[i])

\* C18: when a concurrent task of the batch has ended in a join error,
\* eval_tool_calls returns an error and no result list; when every name of
\* the batch resolves the error is the task-failure error.
TaskFailureAbortsBatch ==
    (pc = "done" /\ \E k \in DOMAIN concurrent_tasks : Panicked(k))
    => /\ ret.some /\ ~ret.x.ok
       /\ AllResolve => ret.x.e[1] = "A concurrent tool call task failed: "

\* C18 witness: a batch of three calls, one task panicked, the two other
\* calls were evaluated with success, and the batch returned the error.
TaskFailureWitness ==
    /\ pc = "done" /\ Len(calls) = 3 /\ AllResolve
    /\ Cardinality({k \in DOMAIN concurrent_tasks : Panicked(k)}) = 1
    /\ Cardinality({i \in DOMAIN evaluated : evaluated[i].result.ok}) = 2
    /\ ret.some /\ ~ret.x.ok
    /\ ret.x.e[1] = "A concurrent tool call task failed: "

\* C19: when eval_tool_calls has returned, every task it spawned has ended.
NoTaskRunsAfterReturn ==
    pc = "done" => \A k \in DOMAIN concurrent_tasks : Ended(concurrent_tasks[k])

\* C20 as stated: while a call of the batch is being evaluated in line, no
\* concurrent call of the batch is waiting to be launched.
ConcurrentLaunchNeverWaits ==
    ~ /\ pc = "eval" /\ AllResolve
      /\ \E j \in (index + 2)..Len(calls) : Concurrent(calls[j])

\* C20: a concurrent call reached by the loop is launched whatever the state
\* of the tasks launched before it, and every task was launched after all
\* the non-concurrent calls standing before it had been evaluated.
ConcurrentLaunchWaitsOnlyForSequential ==
    /\ (pc = "loop" /\ index < Len(calls) /\ Resolves(CurrentCall)
          /\ Concurrent(CurrentCall))
       => ENABLED SpawnTask
    /\ \A k \in DOMAIN concurrent_tasks :
          \A j \in 0..(concurrent_tasks[k].index - 1) :
              ~Concurrent(calls[j + 1]) => j \in DOMAIN evaluated

\* C20 witness: after a non-concurrent call was evaluated, two tasks were
\* launched and neither has started.
ConcurrentLaunchWitness ==
    /\ Len(concurrent_tasks) = 2
    /\ concurrent_tasks[1].st = "spawned" /\ concurrent_tasks[2].st = "spawned"
    /\ concurrent_tasks[1].index = 1 /\ concurrent_tasks[2].index = 2
    /\ 0 \in DOMAIN evaluated

\* The server lists the tool; the server connects and lists its tools.
Exposes(server, tool) ==
    /\ remote[server].tools.ok
    /\ \E i \in DOMAIN remote[server].tools.v : remote[server].tools.v[i] = tool
Healthy(server) ==
    remote[server].connects /\ remote[server].has_peer /\ remote[server].tools.ok
LastConfigured(tool) ==
    config_file[CHOOSE i \in DOMAIN config_file :
                    /\ Exposes(config_file[i], tool)
                    /\ \A j \in (i + 1)..Len(config_file) : ~Exposes(config_file[j], tool)]

\* C13: in the registry McpAdapter::init returns, a tool is bound to the
\* last server, in the order of the configuration file, that exposes it.
CollisionBoundToLastConfigured ==
    mcp_pc = "ready"
    => \A tool \in DOMAIN toolset : toolset[tool].server = LastConfigured(tool)

\* C14: McpAdapter::init returns an error exactly when a configured server
\* does not connect, has no peer or fails to list its tools; the adapter it
\* returns holds a handle for every configured server and every tool of
\* every server is in its registry.
InitAllOrNothing ==
    mcp_ret.some
    => /\ mcp_ret.x.ok <=> \A n \in load(config_file) : Healthy(n)
       /\ mcp_ret.x.ok =>
             /\ mcp_ret.x.v.clients = load(config_file)
             /\ \A n \in load(config_file) :
                   \A i \in DOMAIN remote[n].tools.v :
                       remote[n].tools.v[i] \in DOMAIN mcp_ret.x.v.toolset

\* C14 witness: of two configured servers one is healthy and was visited
\* first, the other failed, and init returned the error.
InitAllOrNothingWitness ==
    /\ mcp_pc = "failed" /\ Len(config_file) = 2 /\ pending = {}
    /\ Cardinality({n \in load(config_file) : Healthy(n)}) = 1
    /\ mcp_ret.some /\ ~mcp_ret.x.ok

\* C15: a ToolSet::call on a name of the registry sends one call_tool
\* request, to the server the tool is bound to, named as the tool, with the
\* object as arguments if the value is an object and no arguments if not;
\* the server's result is what the call returns.
CallForwarded ==
    [][ (called' = called + 1 /\ call_arg'.x.name \in DOMAIN toolset)
        => /\ sent' = sent + 1
           /\ request'.some
           /\ request'.x.name = call_arg'.x.name
           /\ request'.x.server = toolset[call_arg'.x.name].server
           /\ request'.x.arguments =
                 (IF call_arg'.x.args.t = "obj"
                  THEN Some(call_arg'.x.args.m) ELSE None)
           /\ request'.x.response.ok
                 => call_ret' = Some(Ok(request'.x.response.v)) ]_vars

\* C15 witness: two calls were made and two requests sent; the last call
\* had a string as arguments, its request carried none and its result came
\* back.
CallForwardedWitness ==
    /\ called = 2 /\ sent = 2
    /\ call_arg = Some([name |-> "fetch", args |-> String(Text_hello)])
    /\ request.some /\ request.x.name = "fetch" /\ request.x.arguments = None
    /\ call_ret = Some(Ok(CallToolResult(<<"hit">>, None)))

\* C16: when the server's answer to call_tool is a failure, the call
\* returns that failure as an error; a result flagged is_error comes back
\* with its flag and content.
RemoteFailurePropagates ==
    (request.some /\ call_ret.some)
    => /\ ~request.x.response.ok
            => (~call_ret.x.ok /\ call_ret.x.e = request.x.response.e)
       /\ (request.x.response.ok /\ request.x.response.v.is_error = Some(TRUE))
            => (call_ret.x.ok /\ call_ret.x.v.is_error = Some(TRUE)
                /\ call_ret.x.v.content = request.x.response.v.content)

\* C16 witness: the request for fetch with object arguments was answered
\* by a failure and the call returned it.
RemoteFailureWitness ==
    /\ call_arg = Some([name |-> "fetch", args |-> ObjectArguments])
    /\ request.some /\ request.x.response = Err(<<"transport closed">>)
    /\ call_ret = Some(Err(<<"transport closed">>))

\* The positions (from 0) before position i whose call is not concurrent.
SequentialBefore(i) == {j \in 0..(i - 1) : ~Concurrent(calls[j + 1])}
IsTask(i) == \E k \in DOMAIN concurrent_tasks : concurrent_tasks[k].index = i

\* C21: while a non-concurrent call is evaluated, every non-concurrent call
\* before it in the deduplicated list has returned and has its result in the
\* map; a result recorded in the loop is that of the call at its key.
SequentialInListOrder ==
    /\ pc = "eval"
       => /\ ~Concurrent(CurrentCall)
          /\ \A j \in SequentialBefore(index) :
                j \in DOMAIN evaluated /\ j \in DOMAIN results_map
          /\ index \notin DOMAIN evaluated
    /\ pc \in {"loop", "eval"}
       => /\ \A j \in DOMAIN results_map :
                j < index /\ ~IsTask(j) /\ results_map[j].call = calls[j + 1]
          /\ DOMAIN results_map = SequentialBefore(index)

\* C21 witness: the third call is being evaluated; the first was evaluated
\* before it and the second was spawned as a task.
SequentialInListOrderWitness ==
    /\ pc = "eval" /\ index = 2
    /\ DOMAIN results_map = {0}
    /\ IsTask(1)
    /\ results_map[0].call = calls[1] /\ calls[1] # calls[3]

\* C22: while a non-concurrent call is being evaluated, no task of the
\* batch is running.
SequentialRunsAlone ==
    pc = "eval" => \A k \in DOMAIN concurrent_tasks : concurrent_tasks[k].st # "running"

\* C23: call.eval is entered at most once for a position; when
\* eval_tool_calls returns a list, it was entered once for every call of
\* the deduplicated list, and a call whose evaluation failed has an error
\* object as its output in the list.
NoRetry ==
    /\ \A i \in DOMAIN eval_count : eval_count[i] = 1
    /\ ReturnedOk
       => /\ DOMAIN eval_count = 0..(Len(calls) - 1)
          /\ \A i \in DOMAIN evaluated :
                Failed(i) => /\ Len(ret.x.v) = Len(calls)
                             /\ IsError(ret.x.v[i + 1].output)

\* C23 witness: a batch of two calls returned; the first call failed, was
\* evaluated once and its error is in the list.
NoRetryWitness ==
    /\ ReturnedOk /\ Len(calls) = 2
    /\ Failed(0) /\ ~Failed(1)
    /\ eval_count[0] = 1 /\ eval_count[1] = 1
    /\ IsError(ret.x.v[1].output)

LoopDetected ==
    Err(<<"The request was aborted because an infinite loop of function calls was detected.">>)

\* C24: dedup of a non-empty list is not empty, eval_tool_calls never
\* returns the loop error, and for the empty list it returns Ok with the
\* empty list.
LoopDetectedUnreachable ==
    /\ (pc = "start" /\ calls # <<>>) => dedup(calls) # <<>>
    /\ ret # Some(LoopDetected)
    /\ (pc # "start" /\ calls = <<>>) => (pc = "done" /\ ret = Some(Ok(<<>>)))

\* C24 witness: three calls with the same id were handed over, dedup kept
\* one and the loop has started on it.
LoopDetectedUnreachableWitness ==
    /\ pc = "loop" /\ index = 0 /\ ret = None
    /\ Len(calls) = 1 /\ calls[1].id = Some("A")

InternalError == Err(<<"Failed to reconstruct tool call results in order">>)
TasksAt(i) == {k \in DOMAIN concurrent_tasks : concurrent_tasks[k].index = i}

\* C25: eval_tool_calls never returns the reconstruction error; when
\* join_all has returned without a join error, results_map has exactly the
\* keys 0..N-1 of the N deduplicated calls, each written by the loop or by
\* one task, never both.
ReassemblyComplete ==
    /\ ret # Some(InternalError)
    /\ (pc = "done" /\ calls # <<>> /\ index = Len(calls) /\ NoPanic)
       => /\ DOMAIN results_map = 0..(Len(calls) - 1)
          /\ \A i \in 0..(Len(calls) - 1) :
                /\ Cardinality(TasksAt(i)) = (IF Concurrent(calls[i + 1]) THEN 1 ELSE 0)
                /\ i \in DOMAIN evaluated
                /\ eval_count[i] = 1

\* C25 witness: three calls, the second evaluated in the loop and the two
\* others by tasks, the second task ending first; the three results were
\* returned.
ReassemblyCompleteWitness ==
    /\ ReturnedOk /\ Len(calls) = 3 /\ Len(ret.x.v) = 3
    /\ TasksAt(0) # {} /\ TasksAt(1) = {} /\ TasksAt(2) # {}
    /\ overtaken
    /\ DOMAIN results_map = {0, 1, 2}

\* The declaration a call's name resolves to: that of the active agent when
\* it is flagged agent-scoped there, else the global one.
ResolvedDeclaration(call) ==
    LET a == [name |-> call.name, functions |-> functions, agent |-> agent] IN
    IF AgentScoped(a) THEN AgentDeclaration(a) ELSE GlobalDeclaration(a)

\* C26: a call the loop has passed was spawned as a task exactly when the
\* declaration it resolves to has allow_concurrency true, a call evaluated
\* in the loop resolves to a declaration with allow_concurrency false, and
\* a declaration that does not state the flag is not concurrent.
ConcurrencyFollowsDeclaration ==
    /\ \A i \in 0..(index - 1) :
          IsTask(i) <=> ResolvedDeclaration(calls[i + 1]).allow_concurrency
    /\ pc = "eval" => ~ResolvedDeclaration(CurrentCall).allow_concurrency
    /\ ~from_declaration(deserialize([name |-> "seq_tool"])).concurrent
    /\ from_declaration(deserialize([name |-> "con_tool", allow_concurrency |-> TRUE])).concurrent

\* C26 witness: with the agent coder active, con_tool, agent-scoped without
\* concurrency in coder and concurrent in the global store, was evaluated
\* in the loop and no task was spawned.
ConcurrencyFollowsDeclarationWitness ==
    /\ agent = Some(Coder) /\ ReturnedOk
    /\ \E i \in DOMAIN calls : calls[i].name = "con_tool" /\ (i - 1) \in DOMAIN evaluated
    /\ find(functions, "con_tool").x.allow_concurrency
    /\ concurrent_tasks = <<>>

\* The arguments were accepted and the child was run; it exited with
\* success.
ChildRan(a) ==
    json_data(a.call, a.config.name).ok /\ a.sys.path.some /\ a.sys.run.ok
ChildSucceeded(a) == ChildRan(a) /\ a.sys.run.v.success
NoOutputFile(sys) == ~sys.exists \/ sys.read = Ok(<<>>)

\* C27: when the child exits with success and its output file is absent or
\* empty, eval returns JSON null, whatever the standard output was.
EmptyOutputIsNull ==
    (pc = "apply_eval" /\ fn_ret.some /\ ChildSucceeded(fn_arg) /\ NoOutputFile(fn_arg.sys))
    => fn_ret.x = Ok(Null)

\* C27 witness: the child printed {"x":1} on its standard output and left
\* its output file empty; eval returned null.
EmptyOutputIsNullWitness ==
    /\ pc = "apply_eval" /\ fn_ret.some
    /\ fn_arg.call.arguments = ObjectArguments
    /\ fn_arg.sys = WritesEmpty /\ fn_arg.sys.run.v.stdout = Text_x1
    /\ fn_ret.x = Ok(Null)

\* C28: when the child exits with a non-zero status, eval returns an error,
\* whatever the output file holds.
FailedProcessFails ==
    (pc = "apply_eval" /\ fn_ret.some /\ ChildRan(fn_arg) /\ ~fn_arg.sys.run.v.success)
    => /\ ~fn_ret.x.ok
       /\ fn_ret.x # Ok(output_of(Some(fn_arg.sys.read.v)))

\* C28 witness: the child wrote {"x":1} to its output file and exited with
\* a non-zero status; eval returned an error.
FailedProcessFailsWitness ==
    /\ pc = "apply_eval" /\ fn_ret.some
    /\ fn_arg.call.arguments = ObjectArguments
    /\ fn_arg.sys = FailsAfterWriting
    /\ from_str(fn_arg.sys.read.v).ok
    /\ ~fn_ret.x.ok

\* The PATH of the child: the agent's directory first if `first`, then the
\* global directory, then the PATH of the process.
ExpectedPath(first, a) ==
    (IF first THEN <<"agents/", a.agent.x.name, "/bin", ":">> ELSE <<>>)
    \o <<"functions/bin", ":">> \o a.env["PATH"]
Resolution(a) == [name |-> a.name, functions |-> a.functions, agent |-> a.agent]

\* C29 as stated: the child's PATH starts with the agent's directory
\* exactly when the call is agent-scoped, and the environment of the
\* process is unchanged.
ChildPathByScope ==
    (pc = "apply_path" /\ fn_ret.some /\ "PATH" \in DOMAIN fn_arg.env)
    => /\ fn_ret.x.child.ok
       /\ fn_ret.x.child.v["PATH"] = ExpectedPath(AgentScoped(Resolution(fn_arg)), fn_arg)
       /\ fn_ret.x.env = fn_arg.env

\* C29: the child's PATH starts with the agent's directory exactly when
\* the call is agent-scoped and that directory exists, then has the global
\* directory, then the PATH of the process; the environment of the process
\* is unchanged; without a PATH in the process no environment is built.
ChildPathByScopeAndDirectory ==
    (pc = "apply_path" /\ fn_ret.some)
    => /\ fn_ret.x.env = fn_arg.env
       /\ fn_ret.x.child.ok <=> "PATH" \in DOMAIN fn_arg.env
       /\ fn_ret.x.child.ok =>
             fn_ret.x.child.v["PATH"] =
                 ExpectedPath(AgentScoped(Resolution(fn_arg)) /\ fn_arg.dir_exists, fn_arg)

\* C29 witness: con_tool resolved in the agent coder, whose directory
\* exists; the child's PATH is the agent's directory, the global one and
\* the PATH of the process, which still has its own.
ChildPathWitness ==
    /\ pc = "apply_path" /\ fn_ret.some
    /\ fn_arg.name = "con_tool" /\ fn_arg.agent = Some(Coder) /\ fn_arg.dir_exists
    /\ fn_ret.x.child.ok
    /\ fn_ret.x.child.v["PATH"] =
          <<"agents/", "coder", "/bin", ":", "functions/bin", ":", "/usr/bin", ":", "/bin">>
    /\ fn_ret.x.env["PATH"] = <<"/usr/bin", ":", "/bin">>

\* C30: when a result of the batch has an output other than null and
\* "DONE", the returned list is the full list, entry i being the result
\* recorded at position i - 1 with its output, "DONE" included; an empty
\* list is returned for a non-empty batch only when every output is null
\* or "DONE".
MixedBatchReturnedInFull ==
    (ReturnedOk /\ calls # <<>>)
    => /\ ~AllDone => /\ DOMAIN ret.x.v = 1..Len(calls)
                      /\ \A i \in DOMAIN ret.x.v : ret.x.v[i] = results_map[i - 1]
       /\ ret.x.v = <<>> => AllDone

\* C30 witness: two results were returned, the first with the output
\* "DONE" and the second with an error object.
MixedBatchWitness ==
    /\ ReturnedOk /\ Len(calls) = 2 /\ Len(ret.x.v) = 2
    /\ ret.x.v[1].output = DONE
    /\ IsError(ret.x.v[2].output)

\* C31: a ToolSet::call on a name that is not in the registry returns the
\* error 'Tool <name> not found', sends no request and leaves the registry
\* and the connections as they were.
UnknownToolRefused ==
    [][ (called' = called + 1 /\ call_arg'.x.name \notin DOMAIN toolset)
        => /\ call_ret' = Some(Err(<<"Tool ", call_arg'.x.name, " not found">>))
           /\ sent' = sent
           /\ request' = None
           /\ toolset' = toolset /\ clients' = clients ]_vars

\* C31 witness: the registry has tools, one request was sent for fetch, and
\* the next call, on the name nope, returned the error without a request.
UnknownToolWitness ==
    /\ called = 2 /\ sent = 1
    /\ "fetch" \in DOMAIN toolset
    /\ call_arg.some /\ call_arg.x.name = "nope"
    /\ request = None
    /\ call_ret = Some(Err(<<"Tool ", "nope", " not found">>))

\* The persisted fields a session's unsaved changes are counted in.
TrackedFields ==
    {"role_name", "agent_variables", "agent_instructions", "model_id",
     "temperature", "top_p", "messages", "compressed_messages"}
Unsaved ==
    /\ session.some /\ on_disk.some
    /\ \E f \in TrackedFields : session.x[f] # on_disk.x.content[f]

\* C32: dirty() tells whether the session has unsaved changes.  Whenever a
\* persisted field (role name, agent variables, agent instructions, model,
\* sampling settings, messages, compressed messages) differs from its value
\* at the last load or successful save, dirty is true.
UnsavedChangesAreDirty == Unsaved => session.x.dirty

ExitStep == ops' = ops + 1 /\ session_op'.x.op = "exit"
SessionOnDisk == on_disk.some /\ on_disk.x.content = to_yaml(session.x)

CompressStep == ops' = ops + 1 /\ session_op'.x.op = "compress"
LeadingPrompt(messages) ==
    IF messages # <<>> /\ messages[1].role = "system"
       /\ messages[1].content.t = "text" /\ messages[1].content.text # <<>>
    THEN messages[1].content.text \o <<"\n\n">>
    ELSE <<>>

\* C34: compress loses no message.  After compress(prompt) the compressed
\* messages are the previous ones followed by all previous messages in
\* order, messages is one System message (the previous non-empty leading
\* system prompt, if any, then the summary prompt), and dirty is true.
CompressLosesNothing ==
    [][ CompressStep
        => /\ session'.x.compressed_messages
                = session.x.compressed_messages \o session.x.messages
           /\ session'.x.messages
                = <<Message("system",
                            TextContent(LeadingPrompt(session.x.messages)
                                        \o session_op'.x.arg))>>
           /\ session'.x.dirty ]_vars
CompressWitness ==
    /\ session_op.some /\ session_op.x.op = "compress"
    /\ Len(session.x.compressed_messages) = 6
    /\ session.x.compressed_messages[4].role = "system"
    /\ session.x.messages
        = <<Message("system",
                    TextContent(<<"Be brief", "\n\n", "Summary", "\n\n", "Summary">>))>>

\* C35: sync_session creates a chat only when the session has no chat id;
\* across any interleaving of sync_session calls on the same session at most
\* one chat is created for it and its chat id, once set, never changes.
OneChatPerSession ==
    [][ /\ Len(chats') <= 1
        /\ (session.some /\ session.x.chat_id.some)
            => (session'.some /\ session'.x.chat_id = session.x.chat_id) ]_vars

====
